---- MODULE Spec2Model ----
(***************************************************************************)
(* A model of the WebMoney signer (package signer): option handling, the    *)
(* key container (decode, decrypt, verify, extract) and Sign; and of the    *)
(* XML interface (package webmoney) that signs and sends the requests.      *)
(*                                                                          *)
(* Seven specifications share the module: Spec (construction), SpecSign     *)
(* (Sign by two callers), SpecKey (one key container and the calls made on  *)
(* it), SpecEncrypt (Encrypt called again on a built container), SpecHash   *)
(* (md4Hash over inputs of growing length), SpecReverse (reverseBytes,      *)
(* reverseWords, reverseBytesAsWords) and SpecSend (TransferMoney,          *)
(* GetTransactionsHistory, GetBalance and sendRequest).  Each leaves the    *)
(* others' variables at rest.                                               *)
(*                                                                          *)
(* Bytes are the integers 0..255, byte slices and Go strings are sequences  *)
(* of bytes (a string is the sequence of its ASCII codes), nil is Nil.      *)
(* A pointer is the empty sequence (nil) or <<v>>; an error is a string,    *)
(* Nil when there is none.  big.Int values are naturals; the key pools     *)
(* keep the modulus below 2^22 so that the modular arithmetic stays inside  *)
(* 32-bit integers.                                                         *)
(***************************************************************************)
EXTENDS Integers, Sequences, FiniteSets, TLC

VARIABLES
    pc,        \* construction: "options" while options are applied, "done" after NewSigner returned
    options,   \* the Options struct being filled by the option functions
    signer,    \* the *Signer NewSigner returned, a pointer
    err,       \* the error NewSigner returned, or Nil
    calls,     \* the calls NewSigner made, in order
    ctor,      \* which constructor ran: "none", "NewSigner" or "NewWebMoney"
    spc,       \* per caller: position inside Sign
    data,      \* per caller: Sign's argument
    hash,      \* per caller: the digest of data (local of Sign)
    b,         \* per caller: the 40-byte random buffer (local of Sign)
    drawn,     \* per caller: what RandRead returned and left in the buffer, [n, err, b]
    result,    \* per caller: the big.Int result (local of Sign)
    sig,       \* per caller: the string Sign returned
    serr,      \* per caller: the error Sign returned
    scalls,    \* per caller: the calls this Sign made, in order
    kpc,       \* key container: "none", "ready" once built, "failed" if newKeyContainer failed
    container, \* the *keyContainer, a pointer
    kargs,     \* the arguments of newKeyContainer: [key, wmid, keyPassword]
    kread,     \* the struct as BinaryRead filled it, before Encrypt (a pointer)
    kmask,     \* the modifier Encrypt used (a pointer)
    kerr,      \* the error newKeyContainer returned, or Nil
    khashed,   \* the bytes the last Verify handed to md4Hash (a pointer)
    klog,      \* the calls made on the container and what each returned, in order
    kcalls,    \* the calls newKeyContainer made, in order, then every later Encrypt
    kenc,      \* one entry per Encrypt called on the built container: [before, mask, after]
    hpc,       \* md4Hash: "next" before a call, "done" when every length has been hashed
    hstream,   \* the byte stream the inputs are prefixes of
    hlen,      \* the length of the next input
    hkeyed,    \* md4Hash of the last input (a pointer)
    hdigest,   \* the MD4 digest of the last input (a pointer)
    hdiffer,   \* the lengths at which the two differed
    rpc,       \* reverse: "input", "loop" inside reverseBytes, "returned", "twice", "words", "aswords"
    rin,       \* the caller's buffer as it was before the call
    rdata,     \* reverseBytes' argument data (shares the caller's array)
    reversed,  \* reverseBytes' local reversed
    ri,        \* reverseBytes' loop counter i
    rtwice,    \* reverseBytes(reverseBytes(b)) (a pointer)
    win,       \* a sequence of words
    wonce,     \* reverseWords(ws) (a pointer)
    wtwice,    \* reverseWords(reverseWords(ws)) (a pointer)
    rerr,      \* the error reverseBytesAsWords returned, or Nil
    qpc,       \* sendRequest: "idle", "sign", "marshal", "do", "read", "unmarshal", "code", "returned"
    webmoney,  \* the *WebMoney the method is called on: [signer, marshalFn, unMarshalFn, httpClient]
    payload,   \* the *BaseRequest handed to sendRequest (a pointer)
    qbody,     \* b, the marshaled payload (a pointer)
    qsent,     \* the requests handed to m.httpClient.Do, in order
    qrsp,      \* rsp, the *http.Response (a pointer)
    qout,      \* out, the *BaseResponse after unMarshalFn (a pointer)
    qret,      \* what the method returned: [result, err]
    qlog       \* the steps sendRequest made, in order

cvars == <<pc, options, signer, err, calls, ctor>>
svars == <<spc, data, hash, b, drawn, result, sig, serr, scalls>>
kvars == <<kpc, container, kargs, kread, kmask, kerr, khashed, klog, kcalls, kenc>>
hvars == <<hpc, hstream, hlen, hkeyed, hdigest, hdiffer>>
rvars == <<rpc, rin, rdata, reversed, ri, rtwice, win, wonce, wtwice, rerr>>
qvars == <<qpc, webmoney, payload, qbody, qsent, qrsp, qout, qret, qlog>>
vars == <<pc, options, signer, err, calls, ctor, spc, data, hash, b, drawn, result, sig, serr, scalls,
          kpc, container, kargs, kread, kmask, kerr, khashed, klog, kcalls, kenc,
          hpc, hstream, hlen, hkeyed, hdigest, hdiffer,
          rpc, rin, rdata, reversed, ri, rtwice, win, wonce, wtwice, rerr,
          qpc, webmoney, payload, qbody, qsent, qrsp, qout, qret, qlog>>

Nil == "nil"
NilPtr == <<>>
Ptr(v) == <<v>>

-----------------------------------------------------------------------------
(* Program constants *)

keyLength == 164
crcSize == 16
bufferSize == 140
keyFieldSize == 66
randSize == 40
xorShift == 6
wmIdDigits == 12

ErrorKeyFileBroken == "TestKey file is broken"
ErrorWmIdNotConfigured == "the WebMoney's WMID identifier not configured"
ErrorWmIdIsIncorrect == "the WebMoney's WMID identifier is incorrect"
ErrorKeyNotConfigured == "the WebMoney Pro *.kvm TestKey not configured"
ErrorPasswordNotConfigured == "the TestPassword to WebMoney Pro *.kvm TestKey not configured"

-----------------------------------------------------------------------------
(* Bytes and little-endian fixed-width integers (encoding/binary) *)

Zeros(n) == [i \in 1..n |-> 0]

\* binary.LittleEndian.Uint16 / Uint32 of the bytes at 1-based offset o
U16(s, o) == s[o] + 256 * s[o + 1]
U32(s, o) == s[o] + 256 * s[o + 1] + 65536 * s[o + 2] + 16777216 * s[o + 3]
\* binary.LittleEndian.PutUint16 / PutUint32
PutU16(v) == <<v % 256, (v \div 256) % 256>>
PutU32(v) == <<v % 256, (v \div 256) % 256, (v \div 65536) % 256, (v \div 16777216) % 256>>

\* copy(dst, src): the first min(len) bytes of dst are replaced
Copy(dst, src) ==
    [i \in 1..Len(dst) |-> IF i <= Len(src) THEN src[i] ELSE dst[i]]

\* the ^ operator on bytes, by 4-bit halves
RECURSIVE XorBits(_, _, _)
XorBits(x, y, n) ==
    IF n = 0 THEN 0
    ELSE ((x + y) % 2) + 2 * XorBits(x \div 2, y \div 2, n - 1)
Xor4 == [x \in 0..15 |-> [y \in 0..15 |-> XorBits(x, y, 4)]]
ByteXor(x, y) == 16 * Xor4[x \div 16][y \div 16] + Xor4[x % 16][y % 16]

-----------------------------------------------------------------------------
(* golang.org/x/crypto/md4: the MD4 digest (RFC 1320).  A 32-bit word is    *)
(* the pair <<high 16 bits, low 16 bits>>.                                  *)

RECURSIVE F16(_, _, _, _)
F16(x, y, z, n) ==
    IF n = 0 THEN 0
    ELSE (IF x % 2 = 1 THEN y % 2 ELSE z % 2) + 2 * F16(x \div 2, y \div 2, z \div 2, n - 1)
RECURSIVE G16(_, _, _, _)
G16(x, y, z, n) ==
    IF n = 0 THEN 0
    ELSE (IF (x % 2) + (y % 2) + (z % 2) >= 2 THEN 1 ELSE 0)
         + 2 * G16(x \div 2, y \div 2, z \div 2, n - 1)
RECURSIVE H16(_, _, _, _)
H16(x, y, z, n) ==
    IF n = 0 THEN 0
    ELSE (((x % 2) + (y % 2) + (z % 2)) % 2) + 2 * H16(x \div 2, y \div 2, z \div 2, n - 1)

FTab == [x \in 0..15 |-> [y \in 0..15 |-> [z \in 0..15 |-> F16(x, y, z, 4)]]]
GTab == [x \in 0..15 |-> [y \in 0..15 |-> [z \in 0..15 |-> G16(x, y, z, 4)]]]
HTab == [x \in 0..15 |-> [y \in 0..15 |-> [z \in 0..15 |-> H16(x, y, z, 4)]]]
Nib(T, x, y, z, d) == T[(x \div d) % 16][(y \div d) % 16][(z \div d) % 16]
Tab16(T, x, y, z) ==
    Nib(T, x, y, z, 4096) * 4096 + Nib(T, x, y, z, 256) * 256
    + Nib(T, x, y, z, 16) * 16 + Nib(T, x, y, z, 1)
Fn32(T, x, y, z) == <<Tab16(T, x[1], y[1], z[1]), Tab16(T, x[2], y[2], z[2])>>

Add32(x, y) ==
    LET lo == x[2] + y[2]
        hi == x[1] + y[1] + (lo \div 65536)
    IN <<hi % 65536, lo % 65536>>

RotlSmall(x, s) ==
    IF s = 0 THEN x
    ELSE LET d == 2 ^ (16 - s)
             m == 2 ^ s
         IN <<(x[1] % d) * m + (x[2] \div d), (x[2] % d) * m + (x[1] \div d)>>
Rotl32(x, s) == IF s >= 16 THEN RotlSmall(<<x[2], x[1]>>, s - 16) ELSE RotlSmall(x, s)

md4Shift == << <<3, 7, 11, 19>>, <<3, 5, 9, 13>>, <<3, 9, 11, 15>> >>
md4XIndex == << <<0, 1, 2, 3, 4, 5, 6, 7, 8, 9, 10, 11, 12, 13, 14, 15>>,
                <<0, 4, 8, 12, 1, 5, 9, 13, 2, 6, 10, 14, 3, 7, 11, 15>>,
                <<0, 8, 4, 12, 2, 10, 6, 14, 1, 9, 5, 13, 3, 11, 7, 15>> >>
\* 0, 0x5a827999, 0x6ed9eba1
md4Add == << <<0, 0>>, <<23170, 31129>>, <<28377, 60321>> >>
\* 0x67452301, 0xefcdab89, 0x98badcfe, 0x10325476
md4Init == << <<26437, 8961>>, <<61389, 43913>>, <<39098, 56574>>, <<4146, 21622>> >>

\* one of the 48 steps on <<a, b, c, d>>; the roles rotate to <<d, a', b, c>>
md4Step(s, T, xw, k, sh) ==
    <<s[4], Rotl32(Add32(Add32(Add32(s[1], Fn32(T, s[2], s[3], s[4])), xw), k), sh), s[2], s[3]>>

\* the steps i..47 of a block, in three rounds of 16
RECURSIVE md4Steps(_, _, _)
md4Steps(s, X, i) ==
    IF i = 48 \/ Len(s) # 4 THEN s
    ELSE LET r == (i \div 16) + 1
             T == IF r = 1 THEN FTab ELSE IF r = 2 THEN GTab ELSE HTab
         IN md4Steps(md4Step(s, T, X[md4XIndex[r][(i % 16) + 1] + 1], md4Add[r],
                             md4Shift[r][(i % 4) + 1]),
                     X, i + 1)

md4Word(p, o) == <<p[o + 4] * 256 + p[o + 3], p[o + 2] * 256 + p[o + 1]>>

md4AddState(s, r) == <<Add32(s[1], r[1]), Add32(s[2], r[2]), Add32(s[3], r[3]), Add32(s[4], r[4])>>

\* the block k of the padded input p, applied to the state s
md4Block(s, p, k) ==
    md4AddState(s, md4Steps(s, [i \in 1..16 |-> md4Word(p, 64 * k + 4 * (i - 1))], 0))

\* the padding: 0x80, zeros up to 56 mod 64, the bit length in 8 little-endian bytes
md4Pad(written) ==
    LET n == Len(written)
        bits == n * 8
    IN written \o <<128>> \o Zeros((119 - (n % 64)) % 64)
       \o PutU32(bits) \o <<0, 0, 0, 0>>

RECURSIVE md4Blocks(_, _, _)
md4Blocks(s, p, k) ==
    IF 64 * k >= Len(p) \/ Len(s) # 4 THEN s
    ELSE md4Blocks(md4Block(s, p, k), p, k + 1)

md4WordBytes(w) == <<w[2] % 256, w[2] \div 256, w[1] % 256, w[1] \div 256>>

\* the digest of everything written to the hash
md4StateBytes(s) ==
    md4WordBytes(s[1]) \o md4WordBytes(s[2]) \o md4WordBytes(s[3]) \o md4WordBytes(s[4])
md4Digest(written) == md4StateBytes(md4Blocks(md4Init, md4Pad(written), 0))

\* hash.Sum(in): appends the digest of what was written to in
md4Sum(written, in) == in \o md4Digest(written)

\* the slice taken from the start of the buffer instead
SliceHead(s, n) == SubSeq(s, 1, Len(s) - n)

\* md4Hash: copy(result[:], hash.Sum(data)[length:])
SliceFrom(s, n) == SubSeq(s, n + 1, Len(s))
md4Hash(d) == Copy(Zeros(crcSize), SliceFrom(md4Sum(d, d), Len(d)))

-----------------------------------------------------------------------------
(* encoding/base64, StdEncoding (padded) *)

\* the 6-bit value of an alphabet character, -1 for any other byte
b64Value(c) ==
    IF c >= 65 /\ c <= 90 THEN c - 65
    ELSE IF c >= 97 /\ c <= 122 THEN c - 71
    ELSE IF c >= 48 /\ c <= 57 THEN c + 4
    ELSE IF c = 43 THEN 62
    ELSE IF c = 47 THEN 63
    ELSE -1

b64Pads(s) ==
    LET n == Len(s)
    IN IF n >= 1 /\ s[n] = 61 THEN (IF n >= 2 /\ s[n - 1] = 61 THEN 2 ELSE 1) ELSE 0

\* base64.StdEncoding.DecodeString: [bytes, err]; err is Nil or the
\* CorruptInputError with the offset of the first byte that cannot be decoded
DecodeString(s) ==
    LET n == Len(s)
        pads == b64Pads(s)
        body == n - pads
        bad == {i \in 1..body : b64Value(s[i]) = -1}
        v(i) == IF i > body THEN 0 ELSE b64Value(s[i])
        count == 3 * (n \div 4) - pads
        byteAt(k) ==
            LET q == 4 * (k \div 3)
            IN CASE k % 3 = 0 -> v(q + 1) * 4 + (v(q + 2) \div 16)
                 [] k % 3 = 1 -> (v(q + 2) % 16) * 16 + (v(q + 3) \div 4)
                 [] k % 3 = 2 -> (v(q + 3) % 4) * 64 + v(q + 4)
    IN IF bad # {}
       THEN [bytes |-> <<>>,
             err |-> "illegal base64 data at input byte "
                     \o ToString((CHOOSE i \in bad : \A j \in bad : i <= j) - 1)]
       ELSE IF n % 4 # 0
       THEN [bytes |-> <<>>,
             err |-> "illegal base64 data at input byte " \o ToString(4 * (n \div 4))]
       ELSE [bytes |-> [k \in 1..count |-> byteAt(k - 1)], err |-> Nil]

-----------------------------------------------------------------------------
(* regexp: WmIdRegex = "[0-9]{12}", used with MatchString *)

IsDigit(c) == c >= 48 /\ c <= 57

\* WmIdRegex.MatchString(s): some substring of s matches the pattern
WmIdRegexMatchString(s) ==
    \E i \in 1..Len(s) :
        /\ i + wmIdDigits - 1 <= Len(s)
        /\ \A j \in 0..(wmIdDigits - 1) : IsDigit(s[i + j])

-----------------------------------------------------------------------------
(* ExternalInterface: the production implementation and the injected ones *)

\* newReader(): crypto/rand and encoding/binary
newReader == [kind |-> "real", randErr |-> FALSE, readErr |-> FALSE, writeErr |-> FALSE]

ErrShortRead == "unexpected EOF"
ErrMockRead == "mock BinaryRead error"
ErrMockWrite == "mock BinaryWrite error"
ErrRand == "RandRead error"

\* BinaryRead(reader, LittleEndian, data) for a value of `size` packed bytes
BinaryReadErr(ext, bytes, size) ==
    IF ext.readErr THEN ErrMockRead
    ELSE IF Len(bytes) = 0 /\ size > 0 THEN "EOF"
    ELSE IF Len(bytes) < size THEN ErrShortRead
    ELSE Nil

-----------------------------------------------------------------------------
(* reverseBytes, reverseWords, reverseBytesAsWords *)

\* the first byte moved behind the others
rotateBytes(d) == IF d = <<>> THEN d ELSE Tail(d) \o <<Head(d)>>

\* the body of reverseBytes' loop writing into data, as if reversed shared its array
reverseLoopInPlace(st) ==
    LET w == [st.data EXCEPT ![st.i] = st.data[Len(st.data) - st.i + 1]]
    IN [data |-> w, reversed |-> w, i |-> st.i - 1]

\* one iteration of reverseBytes' loop on [data, reversed, i]:
\* reversed[i-1] = data[length-i]; i--
reverseLoop(st) ==
    [data |-> st.data,
     reversed |-> [st.reversed EXCEPT ![st.i] = st.data[Len(st.data) - st.i + 1]],
     i |-> st.i - 1]

reverseBytes(d) ==
    LET length == Len(d)
    IN [i \in 1..length |-> d[length - i + 1]]

\* the words left in their order
keepWords(d) == d

\* the words reversed and the two bytes of each word exchanged
reverseWordBytes(d) ==
    LET length == Len(d)
    IN [i \in 1..length |-> <<d[length - i + 1][2], d[length - i + 1][1]>>]

reverseWords(d) ==
    LET length == Len(d)
    IN [i \in 1..length |-> d[length - i + 1]]

\* binary.Read into []word: word k holds the bytes 2k-1 and 2k
ReadWords(bytes, n) == [k \in 1..n |-> <<bytes[2 * k - 1], bytes[2 * k]>>]

\* result = append(result, v[:]...) over the words
FlattenWords(words) ==
    [i \in 1..(2 * Len(words)) |-> words[(i + 1) \div 2][2 - (i % 2)]]

\* the zero byte put behind an odd input instead of in front of it
reverseBytesAsWordsRightPad(ext, d) ==
    LET padded == IF Len(d) % 2 # 0 THEN d \o <<0>> ELSE d
        n == Len(padded) \div 2
    IN IF BinaryReadErr(ext, padded, 2 * n) # Nil
       THEN [bytes |-> Nil, err |-> BinaryReadErr(ext, padded, 2 * n)]
       ELSE [bytes |-> FlattenWords([i \in 1..n |-> ReadWords(padded, n)[n - i + 1]]), err |-> Nil]

\* the padding written into the caller's array, as if data still shared it
padDataInPlace(d) ==
    IF Len(d) % 2 # 0 THEN [data |-> <<0>> \o d, caller |-> <<0>> \o SubSeq(d, 1, Len(d) - 1)]
    ELSE [data |-> d, caller |-> d]

\* if len(data)%2 != 0 { data = append([]byte{0}, data...) }: the local data
\* and the caller's buffer; append to the one-byte literal makes a new array
padData(d) ==
    IF Len(d) % 2 # 0 THEN [data |-> <<0>> \o d, caller |-> d]
    ELSE [data |-> d, caller |-> d]

\* [bytes, err]
reverseBytesAsWords(ext, d) ==
    LET padded == IF Len(d) % 2 # 0 THEN <<0>> \o d ELSE d
        n == Len(padded) \div 2
        e == BinaryReadErr(ext, padded, 2 * n)
    IN IF e # Nil THEN [bytes |-> Nil, err |-> e]
       ELSE [bytes |-> FlattenWords(reverseWords(ReadWords(padded, n))), err |-> Nil]

-----------------------------------------------------------------------------
(* math/big on naturals *)

\* (x * y) mod m for x < m, byte by byte of y, so that no intermediate value
\* exceeds 511 * m
RECURSIVE MulMod(_, _, _)
MulMod(x, y, m) ==
    IF y = 0 THEN 0
    ELSE (MulMod(x, y \div 256, m) * 256 + x * (y % 256)) % m

\* new(big.Int).SetBytes(s): the big-endian value of s[lo..hi]
RECURSIVE SetBytes(_, _, _)
SetBytes(s, lo, hi) ==
    IF lo > hi THEN 0
    ELSE IF lo = hi THEN s[lo]
    ELSE LET mid == (lo + hi) \div 2
             left == SetBytes(s, lo, mid)
             right == SetBytes(s, mid + 1, hi)
         IN IF left = 0 THEN right ELSE left * (256 ^ (hi - mid)) + right

\* x^y mod m for m >= 1, by squaring
RECURSIVE PowMod(_, _, _)
PowMod(x, y, m) ==
    IF m = 1 THEN 0
    ELSE IF y = 0 THEN 1
    ELSE LET h == PowMod(x, y \div 2, m)
             sq == MulMod(h, h, m)
         IN IF y % 2 = 1 THEN MulMod(sq, x % m, m) ELSE sq

\* the big-endian value of s[1..n], reduced modulo m (m >= 1)
RECURSIVE SetBytesMod(_, _, _)
SetBytesMod(s, n, m) ==
    IF n = 0 THEN 0
    ELSE (SetBytesMod(s, n - 1, m) * 256 + s[n]) % m

\* new(big.Int).Exp(new(big.Int).SetBytes(x), y, m) for a modulus m >= 1
Exp(x, y, m) == PowMod(SetBytesMod(x, Len(x), m), y, m)

\* (*big.Int).Bytes(): the minimal big-endian bytes, empty for 0
RECURSIVE Bytes(_)
Bytes(v) == IF v = 0 THEN <<>> ELSE Bytes(v \div 256) \o <<v % 256>>

\* hex.EncodeToString
hextable == <<48, 49, 50, 51, 52, 53, 54, 55, 56, 57, 97, 98, 99, 100, 101, 102>>
EncodeToString(src) ==
    [i \in 1..(2 * Len(src)) |->
        IF i % 2 = 1 THEN hextable[(src[(i + 1) \div 2] \div 16) + 1]
        ELSE hextable[(src[i \div 2] % 16) + 1]]

-----------------------------------------------------------------------------
(* keyContainer *)

\* the length field read as 16 bits, the buffer two bytes earlier
ReadKeyContainerKeyShortLength(bytes) ==
    [Reserved |-> U16(bytes, 1),
     SignFlag |-> U16(bytes, 3),
     Crc |-> SubSeq(bytes, 5, 4 + crcSize),
     Length |-> U16(bytes, 5 + crcSize),
     Buffer |-> SubSeq(bytes, 7 + crcSize, 6 + crcSize + bufferSize)]

\* binary.Read of a keyContainerKey: Reserved, SignFlag, Crc, Length, Buffer
ReadKeyContainerKey(bytes) ==
    [Reserved |-> U16(bytes, 1),
     SignFlag |-> U16(bytes, 3),
     Crc |-> SubSeq(bytes, 5, 4 + crcSize),
     Length |-> U32(bytes, 5 + crcSize),
     Buffer |-> SubSeq(bytes, 9 + crcSize, 8 + crcSize + bufferSize)]

\* binary.Write of a keyContainerKey: every field of the struct, packed, in order
WriteKeyContainerKey(key) ==
    PutU16(key.Reserved) \o PutU16(key.SignFlag) \o key.Crc \o PutU32(key.Length) \o key.Buffer

\* binary.Read of a keyData: Reserved, PowerBase, Power, ModulusBase, Modulus
ReadKeyData(bytes) ==
    [Reserved |-> U32(bytes, 1),
     PowerBase |-> U16(bytes, 5),
     Power |-> SubSeq(bytes, 7, 6 + keyFieldSize),
     ModulusBase |-> U16(bytes, 7 + keyFieldSize),
     Modulus |-> SubSeq(bytes, 9 + keyFieldSize, 8 + 2 * keyFieldSize)]

\* the modifier counted from the start of the subject, not from shift
xorModifierFromStart(subject, modifier, shift) ==
    [k \in 1..Len(subject) |->
        IF k <= shift - 1 THEN subject[k]
        ELSE IF k <= shift THEN 0
        ELSE ByteXor(subject[k], modifier[((k - 1) % Len(modifier)) + 1])]

\* xor(subject, modifier, shift): result starts zeroed, copy(result[:shift-1],
\* subject[:shift-1]), then for i := shift.. result[i] = subject[i] ^ modifier[j]
\* with j counting from 0 and wrapping at len(modifier)
xor(subject, modifier, shift) ==
    LET modifierLength == Len(modifier)
    IN [k \in 1..Len(subject) |->
           IF k <= shift - 1 THEN subject[k]
           ELSE IF k <= shift THEN 0
           ELSE ByteXor(subject[k], modifier[((k - 1 - shift) % modifierLength) + 1])]

\* an Encrypt that leaves the buffer as it is
EncryptKeepsBuffer(kc, wmid, keyPassword) == kc

\* (m *keyContainer) Encrypt(wmid, keyPassword)
Encrypt(kc, wmid, keyPassword) ==
    LET h == md4Hash(wmid \o keyPassword)
    IN [kc EXCEPT !.key.Buffer = xor(kc.key.Buffer, h, xorShift)]

\* the reserved field, the length field and the buffer alone
VerifyBufferShort(kc) ==
    PutU16(kc.key.Reserved) \o PutU32(kc.key.Length) \o kc.key.Buffer

\* the sign flag copied into the struct that is written
VerifyBufferWithFlag(kc) ==
    WriteKeyContainerKey([Reserved |-> kc.key.Reserved, SignFlag |-> kc.key.SignFlag,
                          Crc |-> Zeros(crcSize), Length |-> kc.key.Length,
                          Buffer |-> kc.key.Buffer])

\* Verify's buffer.Bytes() after BinaryWrite: the struct literal sets Reserved,
\* Length and Buffer, SignFlag and Crc keep their zero values, and binary.Write
\* writes every field
VerifyBuffer(kc) ==
    WriteKeyContainerKey([Reserved |-> kc.key.Reserved, SignFlag |-> 0, Crc |-> Zeros(crcSize),
                          Length |-> kc.key.Length, Buffer |-> kc.key.Buffer])

\* true whenever the encode step succeeds
VerifyEncodeOnly(kc) ==
    IF kc.kind = "mock" THEN kc.verify ELSE ~kc.external.writeErr

\* (m *keyContainer) Verify()
Verify(kc) ==
    IF kc.kind = "mock" THEN kc.verify
    ELSE IF kc.external.writeErr THEN FALSE
    ELSE md4Hash(VerifyBuffer(kc)) = kc.key.Crc

\* Extract with the two fields taken for each other
ExtractSwapped(kc) ==
    IF kc.kind = "mock" THEN kc.extract
    ELSE IF BinaryReadErr(kc.external, kc.key.Buffer, bufferSize) # Nil
    THEN [power |-> NilPtr, modulus |-> NilPtr,
          err |-> BinaryReadErr(kc.external, kc.key.Buffer, bufferSize)]
    ELSE [power |-> Ptr(SetBytes(reverseBytes(ReadKeyData(kc.key.Buffer).Modulus), 1, keyFieldSize)),
          modulus |-> Ptr(SetBytes(reverseBytes(ReadKeyData(kc.key.Buffer).Power), 1, keyFieldSize)),
          err |-> Nil]

\* the container with its buffer emptied by the read
ExtractDrains(kc) == [kc EXCEPT !.key.Buffer = Zeros(bufferSize)]

\* the container after Extract: data := new(keyData) takes the decoded fields,
\* the reversed copies go into data, m.key is only read
ExtractLeaves(kc) == kc

\* (m *keyContainer) Extract(): [power, modulus, err]
Extract(kc) ==
    IF kc.kind = "mock" THEN kc.extract
    ELSE LET e == BinaryReadErr(kc.external, kc.key.Buffer, bufferSize)
         IN IF e # Nil THEN [power |-> NilPtr, modulus |-> NilPtr, err |-> e]
            ELSE LET d == ReadKeyData(kc.key.Buffer)
                     Power == Copy(d.Power, reverseBytes(d.Power))
                     Modulus == Copy(d.Modulus, reverseBytes(d.Modulus))
                 IN [power |-> Ptr(SetBytes(Power, 1, Len(Power))),
                     modulus |-> Ptr(SetBytes(Modulus, 1, Len(Modulus))),
                     err |-> Nil]

\* Encrypt called a second time before the container is returned
newKeyContainerEncryptsTwice(key, wmid, keyPassword, reader) ==
    LET e == BinaryReadErr(reader, key, keyLength)
    IN IF e # Nil THEN [kc |-> NilPtr, err |-> e, calls |-> <<"BinaryRead">>]
       ELSE [kc |-> Ptr(Encrypt(Encrypt([kind |-> "keyContainer", key |-> ReadKeyContainerKey(key),
                                         external |-> reader], wmid, keyPassword),
                                wmid, keyPassword)),
             err |-> Nil,
             calls |-> <<"BinaryRead", "Encrypt", "Encrypt">>]

\* newKeyContainer(key, wmid, keyPassword, reader): [kc, err, calls]
newKeyContainer(key, wmid, keyPassword, reader) ==
    LET e == BinaryReadErr(reader, key, keyLength)
    IN IF e # Nil THEN [kc |-> NilPtr, err |-> e, calls |-> <<"BinaryRead">>]
       ELSE [kc |-> Ptr(Encrypt([kind |-> "keyContainer", key |-> ReadKeyContainerKey(key),
                                 external |-> reader], wmid, keyPassword)),
             err |-> Nil,
             calls |-> <<"BinaryRead", "Encrypt">>]

-----------------------------------------------------------------------------
(* Options and NewSigner *)

EmptyOptions == [wmId |-> <<>>, key |-> <<>>, password |-> <<>>, newKeyContainerFn |-> NilPtr]

\* the option functions WmId, Key, Password, NewKeyContainerFn: opt(options)
ApplyOpt(opt, o) ==
    CASE opt.name = "WmId" -> [o EXCEPT !.wmId = opt.val]
      [] opt.name = "Key" -> [o EXCEPT !.key = opt.val]
      [] opt.name = "Password" -> [o EXCEPT !.password = opt.val]
      [] opt.name = "NewKeyContainerFn" -> [o EXCEPT !.newKeyContainerFn = opt.val]

\* executeOptions with the key checked ahead of the identifier
executeOptionsKeyFirst(o) ==
    IF o.key = <<>> THEN [options |-> NilPtr, err |-> ErrorKeyNotConfigured]
    ELSE IF o.wmId = <<>> THEN [options |-> NilPtr, err |-> ErrorWmIdNotConfigured]
    ELSE IF ~WmIdRegexMatchString(o.wmId) THEN [options |-> NilPtr, err |-> ErrorWmIdIsIncorrect]
    ELSE IF o.password = <<>> THEN [options |-> NilPtr, err |-> ErrorPasswordNotConfigured]
    ELSE [options |->
             Ptr(IF o.newKeyContainerFn = NilPtr
                 THEN [o EXCEPT !.newKeyContainerFn = Ptr([kind |-> "newKeyContainer"])]
                 ELSE o),
          err |-> Nil]

\* executeOptions after its loop over the options: [options, err]
executeOptions(o) ==
    IF o.wmId = <<>> THEN [options |-> NilPtr, err |-> ErrorWmIdNotConfigured]
    ELSE IF ~WmIdRegexMatchString(o.wmId) THEN [options |-> NilPtr, err |-> ErrorWmIdIsIncorrect]
    ELSE IF o.key = <<>> THEN [options |-> NilPtr, err |-> ErrorKeyNotConfigured]
    ELSE IF o.password = <<>> THEN [options |-> NilPtr, err |-> ErrorPasswordNotConfigured]
    ELSE [options |->
             Ptr(IF o.newKeyContainerFn = NilPtr
                 THEN [o EXCEPT !.newKeyContainerFn = Ptr([kind |-> "newKeyContainer"])]
                 ELSE o),
          err |-> Nil]

\* options.newKeyContainerFn(decodedKey, wmId, password, external): [kc, err, calls]
CallNewKeyContainerFn(fn, key, wmid, keyPassword, reader) ==
    CASE fn.kind = "newKeyContainer" -> newKeyContainer(key, wmid, keyPassword, reader)
      [] fn.kind = "error" -> [kc |-> NilPtr, err |-> fn.err, calls |-> <<>>]
      [] fn.kind = "mock" ->
            [kc |-> Ptr([kind |-> "mock", verify |-> fn.verify, extract |-> fn.extract]),
             err |-> Nil, calls |-> <<>>]

\* the result of NewSigner: the Signer (or nil), the error, the calls made
Return(s, e, c) == [signer |-> s, err |-> e, calls |-> c]

\* the half-built Signer handed back beside Extract's error
AfterExtractPartial(ex, sg, c) ==
    Return(Ptr([sg EXCEPT !.power = ex.power, !.modulus = ex.modulus]), ex.err, c)

\* if signer.power, signer.modulus, err = kc.Extract(); err != nil { return nil, err }
AfterExtract(ex, sg, c) ==
    IF ex.err # Nil THEN Return(NilPtr, ex.err, c)
    ELSE Return(Ptr([sg EXCEPT !.power = ex.power, !.modulus = ex.modulus]), Nil, c)

\* Extract called whatever Verify said, its values dropped when Verify failed
VerifyAndExtractAlways(kc, sg, c) ==
    IF ~Verify(kc)
    THEN Return(NilPtr, ErrorKeyFileBroken, c \o <<"Verify:false", "Extract">>)
    ELSE AfterExtract(Extract(kc), sg, c \o <<"Verify:true", "Extract">>)

\* NewSigner from the Verify call on: Verify, then Extract only when it passed
VerifyAndExtract(kc, sg, c) ==
    IF ~Verify(kc) THEN Return(NilPtr, ErrorKeyFileBroken, c \o <<"Verify:false">>)
    ELSE AfterExtract(Extract(kc), sg, c \o <<"Verify:true", "Extract">>)

\* if err != nil { return nil, err } after options.newKeyContainerFn
AfterBuild(kc, sg, c) ==
    IF kc.err # Nil THEN Return(NilPtr, kc.err, c \o kc.calls)
    ELSE VerifyAndExtract(kc.kc[1], sg, c \o kc.calls)

\* signer := &Signer{external: newReader()} and the call of options.newKeyContainerFn
Build(o, decodedKey, sg) ==
    AfterBuild(CallNewKeyContainerFn(o.newKeyContainerFn[1], decodedKey, o.wmId, o.password,
                                     sg.external),
               sg, <<"DecodeString", "newKeyContainerFn">>)

\* the decoded key passed on whatever its length
AfterDecodeAnyLength(o, dk) ==
    IF dk.err # Nil THEN Return(NilPtr, dk.err, <<"DecodeString">>)
    ELSE Build(o, dk.bytes, [power |-> NilPtr, modulus |-> NilPtr, external |-> newReader])

\* the two checks after base64.StdEncoding.DecodeString(options.key)
AfterDecode(o, dk) ==
    IF dk.err # Nil THEN Return(NilPtr, dk.err, <<"DecodeString">>)
    ELSE IF Len(dk.bytes) # keyLength THEN Return(NilPtr, ErrorKeyFileBroken, <<"DecodeString">>)
    ELSE Build(o, dk.bytes, [power |-> NilPtr, modulus |-> NilPtr, external |-> newReader])

\* NewSigner after the options: decode the key, check its length, build the container
DecodeAndBuild(o) == AfterDecode(o, DecodeString(o.key))

\* if err != nil { return nil, err } after executeOptions
AfterOptions(eo) ==
    IF eo.err # Nil THEN Return(NilPtr, eo.err, <<>>)
    ELSE DecodeAndBuild(eo.options[1])

\* NewSigner(opts...), o being the Options the opts produced
NewSigner(o) == AfterOptions(executeOptions(o))

\* webmoney.executeOptions: the same checks, no default to set
webExecuteOptions(o) ==
    IF o.wmId = <<>> THEN [options |-> NilPtr, err |-> ErrorWmIdNotConfigured]
    ELSE IF ~WmIdRegexMatchString(o.wmId) THEN [options |-> NilPtr, err |-> ErrorWmIdIsIncorrect]
    ELSE IF o.key = <<>> THEN [options |-> NilPtr, err |-> ErrorKeyNotConfigured]
    ELSE IF o.password = <<>> THEN [options |-> NilPtr, err |-> ErrorPasswordNotConfigured]
    ELSE [options |-> Ptr(o), err |-> Nil]

\* NewWebMoney up to the Signer it builds: signer.NewSigner(WmId, Key, Password)
webAfterOptions(eo) ==
    IF eo.err # Nil THEN Return(NilPtr, eo.err, <<>>)
    ELSE NewSigner(ApplyOpt([name |-> "Password", val |-> eo.options[1].password],
                   ApplyOpt([name |-> "Key", val |-> eo.options[1].key],
                   ApplyOpt([name |-> "WmId", val |-> eo.options[1].wmId], EmptyOptions))))
NewWebMoney(o) == webAfterOptions(webExecuteOptions(o))

-----------------------------------------------------------------------------
(* The inputs: identifiers, passwords, key files, injected constructors *)

TestWmId == <<52, 48, 53, 48, 48, 50, 56, 51, 51, 50, 51, 56>>           \* "405002833238"
TestPassword == <<70, 118, 71, 113, 80, 100, 65, 121, 56, 114, 101, 86, 87, 119, 55, 56, 57>>
ShortWmId == <<49, 50, 51, 52>>                                           \* "1234"
LongWmId == <<105, 100, 52, 48, 53, 48, 48, 50, 56, 51, 51, 50, 51, 56>>  \* "id405002833238"
WrongPassword == <<119, 114, 111, 110, 103>>                              \* "wrong"
NotBase64Key == <<48, 49, 50, 51, 52, 53, 54, 55, 56, 57>>                \* "0123456789"
ShortKey == <<77, 84, 73, 122, 78, 68, 85, 50, 78, 122, 103, 53, 77, 65, 61, 61>>  \* "MTIzNDU2Nzg5MA=="

\* base64.StdEncoding.EncodeToString, as the key files are handed over
b64Char(v) ==
    IF v < 26 THEN 65 + v ELSE IF v < 52 THEN 71 + v ELSE IF v < 62 THEN v - 4
    ELSE IF v = 62 THEN 43 ELSE 47
EncodeB64(bytes) ==
    LET n == Len(bytes)
        at(i) == IF i <= n THEN bytes[i] ELSE 0
        charAt(c) ==
            LET g == 3 * ((c - 1) \div 4)
                j == (c - 1) % 4
            IN CASE j = 0 -> b64Char(at(g + 1) \div 4)
                 [] j = 1 -> b64Char((at(g + 1) % 4) * 16 + (at(g + 2) \div 16))
                 [] j = 2 -> IF g + 2 > n THEN 61
                             ELSE b64Char((at(g + 2) % 16) * 4 + (at(g + 3) \div 64))
                 [] j = 3 -> IF g + 3 > n THEN 61 ELSE b64Char(at(g + 3) % 64)
    IN [c \in 1..(4 * ((n + 2) \div 3)) |-> charAt(c)]

\* the n little-endian bytes of a value below 2^31
LittleEndian(v, n) == [i \in 1..n |-> IF i <= 4 THEN (v \div (256 ^ (i - 1))) % 256 ELSE 0]

\* the plain keyData bytes of a key pair
KeyDataBytes(kd) ==
    PutU32(0) \o PutU16(kd.powerBase) \o LittleEndian(kd.power, keyFieldSize)
    \o PutU16(kd.modulusBase) \o LittleEndian(kd.modulus, keyFieldSize)

\* the stored form of a plain buffer: masked from offset 6 on, the byte at
\* offset 5 kept
StoredBuffer(plain, masked) ==
    [k \in 1..bufferSize |-> IF k = xorShift THEN plain[k] ELSE masked[k]]

\* the 164 bytes of a key file holding the stored buffer, the checksum taken
\* over the file as Verify serializes it once the buffer is unmasked
KeyFileOf(reserved, signFlag, stored, mask) ==
    WriteKeyContainerKey(
        [Reserved |-> reserved, SignFlag |-> signFlag,
         Crc |-> md4Hash(WriteKeyContainerKey(
                    [Reserved |-> reserved, SignFlag |-> 0, Crc |-> Zeros(crcSize),
                     Length |-> bufferSize, Buffer |-> xor(stored, mask, xorShift)])),
         Length |-> bufferSize, Buffer |-> stored])

MaskedKeyFile(reserved, signFlag, plain, mask) ==
    KeyFileOf(reserved, signFlag, StoredBuffer(plain, xor(plain, mask, xorShift)), mask)

\* a key file for the key pair kd, the identifier wmid and the password keyPassword
KeyFile(reserved, signFlag, kd, wmid, keyPassword) ==
    MaskedKeyFile(reserved, signFlag, KeyDataBytes(kd), md4Hash(wmid \o keyPassword))

GoodKeyData == [power |-> 11, modulus |-> 4000037, powerBase |-> 66, modulusBase |-> 66]
DegenerateKeyData == [power |-> 3, modulus |-> 1, powerBase |-> 66, modulusBase |-> 66]

GoodKey == EncodeB64(KeyFile(129, 1, GoodKeyData, TestWmId, TestPassword))
DegenerateKey == EncodeB64(KeyFile(129, 1, DegenerateKeyData, TestWmId, TestPassword))
\* a key file with the first byte of its stored checksum changed
CorruptCrc(file) == [k \in 1..Len(file) |-> IF k = 5 THEN (file[k] + 1) % 256 ELSE file[k]]
BrokenKey == EncodeB64(CorruptCrc(KeyFile(129, 1, GoodKeyData, TestWmId, TestPassword)))

WmIds == {TestWmId, ShortWmId, LongWmId}
Keys == {GoodKey, DegenerateKey, BrokenKey, NotBase64Key, ShortKey, <<>>}
Passwords == {TestPassword, WrongPassword, <<>>}

\* injected constructors: one that fails, and ones that hand out a mock container
MockExtractError == [power |-> NilPtr, modulus |-> NilPtr, err |-> "mock Extract error"]
MockExtractOk == [power |-> Ptr(7), modulus |-> Ptr(33), err |-> Nil]
NewKeyContainerFns ==
    {[kind |-> "error", err |-> "mock newKeyContainerFn error"],
     [kind |-> "mock", verify |-> FALSE, extract |-> MockExtractOk],
     [kind |-> "mock", verify |-> TRUE, extract |-> MockExtractError],
     [kind |-> "mock", verify |-> TRUE, extract |-> MockExtractOk]}

Opts ==
    {[name |-> "WmId", val |-> v] : v \in WmIds}
    \cup {[name |-> "Key", val |-> v] : v \in Keys}
    \cup {[name |-> "Password", val |-> v] : v \in Passwords}
    \cup {[name |-> "NewKeyContainerFn", val |-> Ptr(f)] : f \in NewKeyContainerFns}

-----------------------------------------------------------------------------
(* Construction *)

Callers == {"c1", "c2"}

IdleCallers ==
    /\ spc = [c \in Callers |-> "idle"]
    /\ data = [c \in Callers |-> <<>>]
    /\ hash = [c \in Callers |-> <<>>]
    /\ b = [c \in Callers |-> <<>>]
    /\ drawn = [c \in Callers |-> [n |-> 0, err |-> Nil, b |-> <<>>]]
    /\ result = [c \in Callers |-> NilPtr]
    /\ sig = [c \in Callers |-> <<>>]
    /\ serr = [c \in Callers |-> Nil]
    /\ scalls = [c \in Callers |-> <<>>]

\* no key container outside a Signer yet
IdleContainer ==
    /\ kpc = "none"
    /\ container = NilPtr
    /\ kargs = NilPtr
    /\ kread = NilPtr
    /\ kmask = NilPtr
    /\ kerr = Nil
    /\ khashed = NilPtr
    /\ klog = <<>>
    /\ kcalls = <<>>
    /\ kenc = <<>>

\* no md4Hash call outside the Signer yet
IdleHash ==
    /\ hpc = "next"
    /\ hstream = <<>>
    /\ hlen = 0
    /\ hkeyed = NilPtr
    /\ hdigest = NilPtr
    /\ hdiffer = {}

\* no reverseBytes or reverseWords call outside the Signer yet
IdleReverse ==
    /\ rpc = "input"
    /\ rin = <<>>
    /\ rdata = <<>>
    /\ reversed = <<>>
    /\ ri = 0
    /\ rtwice = NilPtr
    /\ win = <<>>
    /\ wonce = NilPtr
    /\ wtwice = NilPtr
    /\ rerr = Nil

\* no method of a WebMoney called yet
IdleSend ==
    /\ qpc = "idle"
    /\ webmoney = NilPtr
    /\ payload = NilPtr
    /\ qbody = NilPtr
    /\ qsent = <<>>
    /\ qrsp = NilPtr
    /\ qout = NilPtr
    /\ qret = [result |-> NilPtr, err |-> Nil]
    /\ qlog = <<>>

\* nothing constructed yet
NotConstructed ==
    /\ pc = "options"
    /\ options = EmptyOptions
    /\ signer = NilPtr
    /\ err = Nil
    /\ calls = <<>>
    /\ ctor = "none"

Init ==
    /\ NotConstructed
    /\ IdleCallers
    /\ IdleContainer
    /\ IdleHash
    /\ IdleReverse
    /\ IdleSend

\* one iteration of executeOptions' loop: opt(options)
ApplyOption(opt) ==
    /\ pc = "options"
    /\ options' = ApplyOpt(opt, options)
    /\ UNCHANGED <<pc, signer, err, calls, ctor>>
    /\ UNCHANGED <<svars, kvars, hvars, rvars, qvars>>

Construct(name, r) ==
    /\ pc' = "done"
    /\ ctor' = name
    /\ signer' = r.signer
    /\ err' = r.err
    /\ calls' = r.calls
    /\ UNCHANGED options
    /\ UNCHANGED <<svars, kvars, hvars, rvars, qvars>>

\* the rest of NewSigner, once the options are applied
NewSignerCall ==
    /\ pc = "options"
    /\ Construct("NewSigner", NewSigner(options))

\* NewWebMoney, whose options cannot set the container constructor
NewWebMoneyCall ==
    /\ pc = "options"
    /\ options.newKeyContainerFn = NilPtr
    /\ Construct("NewWebMoney", NewWebMoney(options))

Next ==
    \/ \E opt \in Opts : ApplyOption(opt)
    \/ NewSignerCall
    \/ NewWebMoneyCall

Spec == Init /\ [][Next]_vars

-----------------------------------------------------------------------------
(* Properties of construction *)

Called(name) == \E i \in DOMAIN calls : calls[i] = name
Constructed == pc = "done"
CryptoCalled ==
    \/ Called("newKeyContainerFn") \/ Called("BinaryRead") \/ Called("Encrypt")
    \/ Called("Verify:false") \/ Called("Verify:true") \/ Called("Extract")

C2_VerifyFalseStops ==
    /\ (Constructed /\ Called("Verify:false")) =>
          /\ ~Called("Extract")
          /\ err = ErrorKeyFileBroken
          /\ signer = NilPtr
    /\ (/\ Constructed
        /\ Called("Encrypt")
        /\ \/ options.key = BrokenKey
           \/ options.password = WrongPassword) => Called("Verify:false")

\* the good key file opened with the wrong password
C2_Witness ==
    /\ Constructed
    /\ options.key = GoodKey
    /\ options.wmId = TestWmId
    /\ options.password = WrongPassword
    /\ Called("Encrypt")
    /\ Called("Verify:false")
    /\ err = ErrorKeyFileBroken

\* C3: a key that is not base64, or that decodes to a length other than 164,
\* gives a nil Signer and an error (the decode error, respectively
\* ErrorKeyFileBroken once the options passed), and neither the container
\* constructor nor Encrypt, Verify or Extract is called.
C3_BadKeyStopsEarly ==
    (Constructed /\ options.key \in {NotBase64Key, ShortKey}) =>
        /\ signer = NilPtr
        /\ err # Nil
        /\ ~CryptoCalled
        /\ Called("DecodeString") =>
              /\ calls = <<"DecodeString">>
              /\ options.key = NotBase64Key => err = "illegal base64 data at input byte 8"
              /\ options.key = ShortKey => err = ErrorKeyFileBroken

\* a key of ten decoded bytes was refused after the decode, with an injected
\* container constructor that was never called
C3_Witness ==
    /\ Constructed
    /\ options.key = ShortKey
    /\ options.newKeyContainerFn # NilPtr
    /\ calls = <<"DecodeString">>
    /\ err = ErrorKeyFileBroken

\* C4: the configuration errors come in a fixed order (identifier empty,
\* identifier failing the pattern, key empty, password empty), whatever else is
\* wrong, and with any of them nothing is decoded and no container is built.
C4_ConfigPrecedence ==
    Constructed =>
        LET expected ==
                IF options.wmId = <<>> THEN ErrorWmIdNotConfigured
                ELSE IF ~WmIdRegexMatchString(options.wmId) THEN ErrorWmIdIsIncorrect
                ELSE IF options.key = <<>> THEN ErrorKeyNotConfigured
                ELSE IF options.password = <<>> THEN ErrorPasswordNotConfigured
                ELSE Nil
        IN IF expected # Nil
           THEN err = expected /\ calls = <<>> /\ signer = NilPtr
           ELSE Called("DecodeString")

\* an identifier that fails the pattern, with the key and the password missing too
C4_Witness ==
    /\ Constructed
    /\ options.wmId = ShortWmId
    /\ options.key = <<>>
    /\ options.password = <<>>
    /\ err = ErrorWmIdIsIncorrect

\* a string of exactly 12 decimal digits
IsTwelveDigits(s) == Len(s) = wmIdDigits /\ \A i \in DOMAIN s : IsDigit(s[i])

\* C5: a non-empty identifier that is not exactly 12 decimal digits is refused
\* with ErrorWmIdIsIncorrect by both constructors and never reaches the
\* construction of a key container.
C5_OnlyTwelveDigits ==
    (Constructed /\ options.wmId # <<>> /\ ~IsTwelveDigits(options.wmId)) =>
        /\ err = ErrorWmIdIsIncorrect
        /\ ~Called("newKeyContainerFn")

-----------------------------------------------------------------------------
(* Sign *)

TestMessage == <<49, 50, 51, 52, 53, 54, 55, 56, 57, 48>>                 \* "1234567890"
Messages == {TestMessage, <<>>}

\* what crypto/rand may deliver into a buffer of randSize bytes
RandPool == {[i \in 1..randSize |-> (7 * i) % 256], [i \in 1..randSize |-> 255 - i]}

\* the injected ExternalInterface implementations: RandRead returning (0, err),
\* and RandRead returning (0, nil) with BinaryRead returning an error
RandErrorExternal == [kind |-> "mock", randErr |-> TRUE, readErr |-> FALSE, writeErr |-> FALSE]
ReadErrorExternal == [kind |-> "mock", randErr |-> FALSE, readErr |-> TRUE, writeErr |-> FALSE]
\* RandRead returning (0, nil) beside a working BinaryRead
ShortReadExternal == [kind |-> "mock", randErr |-> FALSE, readErr |-> FALSE, writeErr |-> FALSE]
Externals == {newReader, RandErrorExternal, ReadErrorExternal, ShortReadExternal}

\* a random source that delivers nothing and reports no error
RandReadNone(ext, buf) == {[n |-> 0, err |-> Nil, b |-> buf]}

\* m.external.RandRead(b): the possible outcomes [n, err, b], b the buffer after the call
RandRead(ext, buf) ==
    IF ext.kind = "real" THEN {[n |-> Len(buf), err |-> Nil, b |-> r] : r \in RandPool}
    ELSE IF ext.randErr THEN {[n |-> 0, err |-> ErrRand, b |-> buf]}
    ELSE {[n |-> 0, err |-> Nil, b |-> buf]}

\* one buffer behind every caller's b
SharedWrite(f, c, v) == [x \in DOMAIN f |-> v]

\* b := make([]byte, 40) is a buffer of the call: writing it touches no other call
LocalWrite(f, c, v) == [f EXCEPT ![c] = v]

\* RandRead's error ignored
AfterRandReadIgnoreError(rr) == "drawn"

\* if err != nil { return "", err } after RandRead
AfterRandRead(rr) == IF rr.err # Nil THEN "returned" ELSE "drawn"

\* the length byte taken after baseLength += 2
SignBaseCountsPrefix(h, buf) == <<(Len(h \o buf) + 2) % 256, 0>> \o h \o buf

\* base = append([]byte{baseLength, 0}, append(hash, b...)...), baseLength a uint8
SignBase(h, buf) == <<Len(h \o buf) % 256, 0>> \o h \o buf

\* result := new(big.Int).Exp(new(big.Int).SetBytes(reverseBytes(base)), m.power, m.modulus)
SignResult(sg, base) == Exp(reverseBytes(base), sg.power[1], sg.modulus[1])

\* reversedResult, err := m.reverseBytesAsWords(result.Bytes()) and the two returns
SignEncode(sg, res) ==
    LET r == reverseBytesAsWords(sg.external, Bytes(res))
    IN IF r.err # Nil THEN [sig |-> <<>>, err |-> r.err]
       ELSE [sig |-> EncodeToString(r.bytes), err |-> Nil]

\* Sign run from start to end on the hash h of its data, rr the outcome of RandRead
SignFrom(sg, h, rr) ==
    IF rr.err # Nil THEN [sig |-> <<>>, err |-> rr.err]
    ELSE SignEncode(sg, SignResult(sg, SignBase(h, rr.b)))

\* (m *Signer) Sign(data) run from start to end
Sign(sg, d, rr) == SignFrom(sg, md4Hash(d), rr)

\* Signers as NewSigner returns them
SignerOptions ==
    {[wmId |-> TestWmId, key |-> k, password |-> TestPassword, newKeyContainerFn |-> NilPtr]
        : k \in {GoodKey, DegenerateKey}}

SignInit ==
    /\ pc = "done"
    /\ ctor = "NewSigner"
    /\ options \in SignerOptions
    /\ signer = NewSigner(options).signer
    /\ err = NewSigner(options).err
    /\ calls = NewSigner(options).calls
    /\ signer # NilPtr
    /\ IdleCallers
    /\ IdleContainer
    /\ IdleHash
    /\ IdleReverse
    /\ IdleSend

AtRest == \A c \in Callers : spc[c] = "idle"

\* signer.external = mock, done before the Signer is used
SetExternal(e) ==
    /\ pc = "done"
    /\ signer # NilPtr
    /\ AtRest
    /\ signer' = Ptr([signer[1] EXCEPT !.external = e])
    /\ UNCHANGED <<pc, options, err, calls, ctor>>
    /\ UNCHANGED <<svars, kvars, hvars, rvars, qvars>>

\* Sign up to b := make([]byte, 40)
SignStart(c, msg) ==
    /\ pc = "done"
    /\ signer # NilPtr
    /\ spc[c] \in {"idle", "returned"}
    /\ spc' = [spc EXCEPT ![c] = "hashed"]
    /\ data' = [data EXCEPT ![c] = msg]
    /\ hash' = [hash EXCEPT ![c] = md4Hash(msg)]
    /\ b' = LocalWrite(b, c, Zeros(randSize))
    /\ drawn' = [drawn EXCEPT ![c] = [n |-> 0, err |-> Nil, b |-> <<>>]]
    /\ result' = [result EXCEPT ![c] = NilPtr]
    /\ sig' = [sig EXCEPT ![c] = <<>>]
    /\ serr' = [serr EXCEPT ![c] = Nil]
    /\ scalls' = [scalls EXCEPT ![c] = <<>>]
    /\ UNCHANGED <<cvars, kvars, hvars, rvars, qvars>>

\* _, err := m.external.RandRead(b) and the return on its error
SignRandRead(c) ==
    /\ spc[c] = "hashed"
    /\ \E rr \in RandRead(signer[1].external, b[c]) :
          /\ b' = LocalWrite(b, c, rr.b)
          /\ drawn' = [drawn EXCEPT ![c] = rr]
          /\ spc' = [spc EXCEPT ![c] = AfterRandRead(rr)]
          /\ serr' = [serr EXCEPT ![c] = IF AfterRandRead(rr) = "returned" THEN rr.err ELSE Nil]
    /\ scalls' = [scalls EXCEPT ![c] = Append(@, "RandRead")]
    /\ UNCHANGED <<data, hash, result, sig>>
    /\ UNCHANGED <<cvars, kvars, hvars, rvars, qvars>>

\* base, baseReversed and the exponentiation
SignExp(c) ==
    /\ spc[c] = "drawn"
    /\ result' = [result EXCEPT ![c] = Ptr(SignResult(signer[1], SignBase(hash[c], b[c])))]
    /\ spc' = [spc EXCEPT ![c] = "exp"]
    /\ scalls' = [scalls EXCEPT ![c] = Append(@, "Exp")]
    /\ UNCHANGED <<data, hash, b, drawn, sig, serr>>
    /\ UNCHANGED <<cvars, kvars, hvars, rvars, qvars>>

\* reverseBytesAsWords, hex.EncodeToString and the return
SignReturn(c) ==
    /\ spc[c] = "exp"
    /\ LET r == SignEncode(signer[1], result[c][1])
       IN /\ sig' = [sig EXCEPT ![c] = r.sig]
          /\ serr' = [serr EXCEPT ![c] = r.err]
    /\ spc' = [spc EXCEPT ![c] = "returned"]
    /\ scalls' = [scalls EXCEPT ![c] = Append(@, "BinaryRead")]
    /\ UNCHANGED <<data, hash, b, drawn, result>>
    /\ UNCHANGED <<cvars, kvars, hvars, rvars, qvars>>

SignNext ==
    \/ \E e \in Externals : SetExternal(e)
    \/ \E c \in Callers, msg \in Messages : SignStart(c, msg)
    \/ \E c \in Callers : SignRandRead(c)
    \/ \E c \in Callers : SignExp(c)
    \/ \E c \in Callers : SignReturn(c)

SpecSign == SignInit /\ [][SignNext]_vars

-----------------------------------------------------------------------------
(* Properties of Sign *)

Returned(c) == spc[c] = "returned"
SignOk(c) == Returned(c) /\ serr[c] = Nil
MadeCall(c, name) == \E i \in DOMAIN scalls[c] : scalls[c][i] = name

\* C6: a Sign whose random source reported an error returns the empty string
\* and that error, with no exponentiation and no call of the binary codec; a
\* Sign whose codec read failed returns the empty string and that error; no
\* Sign returns both a signature and an error.
C6_ErrorsGiveNoSignature ==
    \A c \in Callers :
        Returned(c) =>
            /\ drawn[c].err # Nil =>
                  /\ sig[c] = <<>>
                  /\ serr[c] = drawn[c].err
                  /\ scalls[c] = <<"RandRead">>
                  /\ result[c] = NilPtr
            /\ (drawn[c].err = Nil /\ signer[1].external.readErr) =>
                  /\ sig[c] = <<>>
                  /\ serr[c] = ErrMockRead
            /\ serr[c] # Nil => sig[c] = <<>>

\* a Sign returned the error of its random source
C6_Witness ==
    /\ Returned("c1")
    /\ drawn["c1"].err = ErrRand
    /\ serr["c1"] = ErrRand
    /\ sig["c1"] = <<>>

\* a Sign returned the error of the codec read
C6_CodecCase ==
    /\ Returned("c1")
    /\ MadeCall("c1", "BinaryRead")
    /\ serr["c1"] = ErrMockRead
    /\ sig["c1"] = <<>>

\* two finished, successful calls on the same message
SamePair(c, d) == c # d /\ SignOk(c) /\ SignOk(d) /\ data[c] = data[d]

\* C7 as stated: two successful Sign calls on the same message never return
\* equal signatures.
C7_NeverEqual == \A c, d \in Callers : SamePair(c, d) => sig[c] # sig[d]

\* C7 amended: every successful call made one read of the random source into its
\* own buffer and signed what the read left there, and two successful calls on the
\* same message whose buffers hold the same bytes return equal signatures, so
\* that signatures of one message differ only when the random bytes differ.
C7_DifferOnlyByRandomBytes ==
    /\ \A c \in Callers :
          SignOk(c) =>
              /\ scalls[c][1] = "RandRead"
              /\ b[c] = drawn[c].b
              /\ signer[1].external.kind = "real" => b[c] \in RandPool
    /\ \A c, d \in Callers : (SamePair(c, d) /\ b[c] = b[d]) => sig[c] = sig[d]

\* two successful calls on the same message that drew different bytes and
\* returned different signatures
C7_Witness ==
    /\ SamePair("c1", "c2")
    /\ data["c1"] = TestMessage
    /\ b["c1"] # b["c2"]
    /\ sig["c1"] # sig["c2"]

\* C8: a Sign that returns a nil error returns a non-empty string, for every
\* Signer that NewSigner returned.
C8_NonEmptySignature == \A c \in Callers : SignOk(c) => sig[c] # <<>>

\* the MD4 digests of the messages
HashOfMessage == [m \in Messages |-> md4Hash(m)]

\* the value of s[i..] read as a little-endian number, modulo m
RECURSIVE LittleEndianMod(_, _, _)
LittleEndianMod(s, i, m) ==
    IF i > Len(s) THEN 0 ELSE (s[i] + 256 * LittleEndianMod(s, i + 1, m)) % m

\* x^y mod m, one multiplication for each unit of y
RECURSIVE NaivePowMod(_, _, _)
NaivePowMod(x, y, m) == IF y = 0 THEN 1 % m ELSE MulMod(NaivePowMod(x, y - 1, m), x, m)

\* the big-endian bytes of v without leading zero bytes
MinimalBytes(v) ==
    LET k == IF v = 0 THEN 0 ELSE IF v < 256 THEN 1 ELSE IF v < 65536 THEN 2
             ELSE IF v < 16777216 THEN 3 ELSE 4
    IN [i \in 1..k |-> (v \div (256 ^ (k - i))) % 256]

\* the 2-byte words of B (a zero byte put in front of an odd length) in reverse order
WordSwapped(B) ==
    LET P == IF Len(B) % 2 = 1 THEN <<0>> \o B ELSE B
        L == Len(P)
    IN [i \in 1..L |-> P[L - 2 * ((i - 1) \div 2) - 1 + ((i - 1) % 2)]]

\* lowercase hexadecimal, two digits a byte
LowerHex(B) ==
    LET digit(d) == IF d < 10 THEN 48 + d ELSE 87 + d
    IN [i \in 1..(2 * Len(B)) |->
           digit(IF i % 2 = 1 THEN B[(i + 1) \div 2] \div 16 ELSE B[i \div 2] % 16)]

\* the signature of message m with random bytes r under (power, modulus)
ExpectedSignature(m, r, power, modulus) ==
    LowerHex(WordSwapped(MinimalBytes(
        NaivePowMod(LittleEndianMod(<<56, 0>> \o HashOfMessage[m] \o r, 1, modulus),
                    power, modulus))))

\* C9: a successful Sign returns the lowercase hex of reverseBytesAsWords(B), B
\* the minimal big-endian bytes of N^power mod modulus and N the big-endian value
\* of the reversed buffer prefix ++ hash(m) ++ r; nothing else enters the result.
C9_SignatureValue ==
    \A c \in Callers :
        SignOk(c) =>
            sig[c] = ExpectedSignature(data[c], b[c], signer[1].power[1], signer[1].modulus[1])

\* a successful Sign of "1234567890" whose result has three bytes, so that two
\* words change places
C9_Witness ==
    /\ SignOk("c1")
    /\ data["c1"] = TestMessage
    /\ b["c1"] \in RandPool
    /\ result["c1"][1] >= 65536
    /\ Len(sig["c1"]) = 8

\* every finished call returned what Sign run alone returns for its own message
\* and its own random bytes
C10_OwnResult ==
    \A c \in Callers :
        Returned(c) =>
            LET alone == SignFrom(signer[1], HashOfMessage[data[c]], drawn[c])
            IN sig[c] = alone.sig /\ serr[c] = alone.err

\* no step changes power or modulus
C10_KeyUnchanged ==
    /\ signer'[1].power = signer[1].power
    /\ signer'[1].modulus = signer[1].modulus

\* C10: under every interleaving of the Sign calls of several callers on one
\* Signer, power and modulus never change and each call returns what a Sign run
\* alone would return for its own message and its own random bytes.
C10_ConcurrentUse == [](C10_OwnResult) /\ [][C10_KeyUnchanged]_vars

\* one call has returned its signature while the other, on another message and
\* with other random bytes, is between its exponentiation and its return
C10_Witness ==
    /\ SignOk("c1")
    /\ spc["c2"] = "exp"
    /\ data["c1"] # data["c2"]
    /\ b["c1"] # b["c2"]
    /\ sig["c1"] # <<>>

-----------------------------------------------------------------------------
(* The key container on its own *)

MaxCalls == 3

WriteErrorExternal == [kind |-> "mock", randErr |-> FALSE, readErr |-> FALSE, writeErr |-> TRUE]
ContainerExternals == {newReader, ReadErrorExternal, WriteErrorExternal}

\* key pairs beside GoodKeyData: a larger power, and a PowerBase above 255,
\* whose high byte is the byte at offset 5 of the inner buffer
WideKeyData == [power |-> 65537, modulus |-> 4000037, powerBase |-> 66, modulusBase |-> 66]
HighBaseKeyData == [power |-> 11, modulus |-> 4000037, powerBase |-> 322, modulusBase |-> 66]

GoodFile == KeyFile(129, 1, GoodKeyData, TestWmId, TestPassword)
UnsignedFile == KeyFile(0, 0, WideKeyData, TestWmId, TestPassword)
HighBaseFile == KeyFile(129, 1, HighBaseKeyData, TestWmId, TestPassword)
DegenerateFile == KeyFile(129, 1, DegenerateKeyData, TestWmId, TestPassword)
BrokenFile == CorruptCrc(GoodFile)
ShortFile == <<49, 50, 51, 52, 53, 54, 55, 56, 57, 48>>

\* files written for (TestWmId, TestPassword) and left as written
WellFormedFiles == {GoodFile, UnsignedFile, HighBaseFile, DegenerateFile}
KeyFiles == WellFormedFiles \cup {BrokenFile, ShortFile}

NewKeyContainerArgs ==
    {[key |-> f, wmid |-> TestWmId, keyPassword |-> pw] : f \in KeyFiles, pw \in {TestPassword, WrongPassword}}

\* &keyContainer{key: &keyContainerKey{}, external: ext}
EmptyContainer(ext) ==
    [kind |-> "keyContainer",
     key |-> [Reserved |-> 0, SignFlag |-> 0, Crc |-> Zeros(crcSize), Length |-> 0,
              Buffer |-> Zeros(bufferSize)],
     external |-> ext]

\* a 66-byte field whose value, read least significant byte first, is below 2^31
FitsInt(field) ==
    {i \in 1..Len(field) : field[i] # 0 /\ (i > 4 \/ (i = 4 /\ field[i] >= 128))} = {}

\* both key fields of the container's buffer are within the integers
KeyFits(kc) ==
    /\ FitsInt(ReadKeyData(kc.key.Buffer).Power)
    /\ FitsInt(ReadKeyData(kc.key.Buffer).Modulus)

KeyInit ==
    /\ NotConstructed
    /\ IdleCallers
    /\ IdleContainer
    /\ IdleHash
    /\ IdleReverse
    /\ IdleSend

\* newKeyContainer(key, wmid, keyPassword, reader)
NewKeyContainerCall(a, ext) ==
    /\ kpc = "none"
    /\ kargs' = Ptr(a)
    /\ \E r \in {newKeyContainer(a.key, a.wmid, a.keyPassword, ext)} :
          /\ container' = r.kc
          /\ kerr' = r.err
          /\ kpc' = IF r.err = Nil THEN "ready" ELSE "failed"
          /\ kread' = IF r.err = Nil THEN Ptr(ReadKeyContainerKey(a.key)) ELSE NilPtr
          /\ kmask' = IF r.err = Nil THEN Ptr(md4Hash(a.wmid \o a.keyPassword)) ELSE NilPtr
          /\ kcalls' = r.calls
    /\ UNCHANGED <<khashed, klog, kenc>>
    /\ UNCHANGED <<cvars, svars, hvars, rvars, qvars>>

\* a container built as a literal around a zero key
ContainerLiteral(ext) ==
    /\ kpc = "none"
    /\ container' = Ptr(EmptyContainer(ext))
    /\ kpc' = "ready"
    /\ UNCHANGED <<kargs, kread, kmask, kerr, khashed, klog, kcalls, kenc>>
    /\ UNCHANGED <<cvars, svars, hvars, rvars, qvars>>

\* keyContainer.Verify()
VerifyCall ==
    /\ kpc = "ready"
    /\ Len(klog) < MaxCalls
    /\ \E v \in {Verify(container[1])} :
          klog' = Append(klog, [op |-> "Verify", ok |-> v, power |-> NilPtr, modulus |-> NilPtr,
                                err |-> Nil])
    /\ khashed' = IF container[1].external.writeErr THEN NilPtr
                  ELSE Ptr(VerifyBuffer(container[1]))
    /\ UNCHANGED <<kpc, container, kargs, kread, kmask, kerr, kcalls, kenc>>
    /\ UNCHANGED <<cvars, svars, hvars, rvars, qvars>>

\* keyContainer.Extract()
ExtractCall ==
    /\ kpc = "ready"
    /\ Len(klog) < MaxCalls
    /\ KeyFits(container[1])
    /\ \E x \in {Extract(container[1])} :
          klog' = Append(klog, [op |-> "Extract", ok |-> x.err = Nil, power |-> x.power,
                                modulus |-> x.modulus, err |-> x.err])
    /\ container' = Ptr(ExtractLeaves(container[1]))
    /\ UNCHANGED <<kpc, kargs, kread, kmask, kerr, khashed, kcalls, kenc>>
    /\ UNCHANGED <<cvars, svars, hvars, rvars, qvars>>

KeyNext ==
    \/ \E a \in NewKeyContainerArgs, ext \in ContainerExternals : NewKeyContainerCall(a, ext)
    \/ \E ext \in ContainerExternals : ContainerLiteral(ext)
    \/ VerifyCall
    \/ ExtractCall

SpecKey == KeyInit /\ [][KeyNext]_vars

-----------------------------------------------------------------------------
(* Properties of the key container *)

VerifyEntries == {i \in DOMAIN klog : klog[i].op = "Verify"}
ExtractEntries == {i \in DOMAIN klog : klog[i].op = "Extract"}

\* the container was read from a file written for the identifier and password given
WrittenForArgs ==
    /\ kargs # NilPtr
    /\ kargs[1].key \in WellFormedFiles
    /\ kargs[1].wmid = TestWmId
    /\ kargs[1].keyPassword = TestPassword

\* the digest of what the last Verify hashed, when it hashed anything
HashedDigest == IF khashed = NilPtr THEN NilPtr ELSE Ptr(md4Digest(khashed[1]))

\* C11: Verify never fails with an error: it returns false when the encode step
\* fails, false when the hash of the re-serialized view differs from the stored
\* checksum, and true exactly when the encode succeeds and the hash equals the
\* stored checksum (which is the case exactly for a file left as written and
\* opened with its identifier and password).
C11_VerifyTotal ==
    \E h \in {HashedDigest} :
        \A i \in VerifyEntries :
            /\ klog[i].ok \in BOOLEAN
            /\ klog[i].err = Nil
            /\ container[1].external.writeErr => klog[i].ok = FALSE
            /\ klog[i].ok = (~container[1].external.writeErr /\ h = Ptr(container[1].key.Crc))
            /\ klog[i].ok = (~container[1].external.writeErr /\ WrittenForArgs)

\* Verify returned false on a well-formed file only because the encode step failed
C11_Witness ==
    /\ WrittenForArgs
    /\ container # NilPtr
    /\ container[1].external.writeErr
    /\ VerifyEntries # {}
    /\ \A i \in VerifyEntries : klog[i].ok = FALSE

\* Verify returned true, and Verify returned false on a checksum mismatch
C11_TrueCase == \E i \in VerifyEntries : klog[i].ok
C11_MismatchCase ==
    /\ kargs # NilPtr
    /\ kargs[1].key = BrokenFile
    /\ kargs[1].keyPassword = TestPassword
    /\ container # NilPtr
    /\ ~container[1].external.writeErr
    /\ \E i \in VerifyEntries : ~klog[i].ok

\* C12 as stated: the byte string Verify hashes is 146 bytes: the reserved
\* field, the length field and the decrypted buffer, nothing for the sign flag
\* and the checksum.
C12_HashedIsChecksumView ==
    khashed # NilPtr =>
        /\ Len(khashed[1]) = 146
        /\ khashed[1] = PutU16(container[1].key.Reserved) \o PutU32(container[1].key.Length)
                        \o container[1].key.Buffer

\* C12: the byte string Verify hashes is the whole 164-byte struct: the reserved
\* field (2 bytes), 2 zero bytes where the sign flag is, 16 zero bytes where the
\* checksum is, the length field (4 bytes) and the decrypted buffer (140 bytes);
\* the stored sign flag and checksum do not enter it.
C12_HashedIsWholeStruct ==
    khashed # NilPtr =>
        /\ Len(khashed[1]) = keyLength
        /\ khashed[1] = PutU16(container[1].key.Reserved) \o <<0, 0>> \o Zeros(crcSize)
                        \o PutU32(container[1].key.Length) \o container[1].key.Buffer

\* Verify accepted a file whose sign flag and checksum are not zero
C12_Witness ==
    /\ khashed # NilPtr
    /\ kread # NilPtr
    /\ kread[1].SignFlag # 0
    /\ kread[1].Crc # Zeros(crcSize)
    /\ \E i \in VerifyEntries : klog[i].ok

\* C13 as stated: Encrypt leaves the bytes 0..5 of the inner buffer as they were.
C13_FirstSixUntouched ==
    (kpc = "ready" /\ kread # NilPtr) =>
        SubSeq(container[1].key.Buffer, 1, xorShift) = SubSeq(kread[1].Buffer, 1, xorShift)

\* what Encrypt does to the buffer: the bytes 0..4 kept, the byte 5 zero, every
\* byte from 6 on combined with the mask, which repeats every 16 bytes
C13_EncryptEffect ==
    (kpc = "ready" /\ kread # NilPtr) =>
        \A k \in 1..bufferSize :
            container[1].key.Buffer[k] =
                IF k < xorShift THEN kread[1].Buffer[k]
                ELSE IF k = xorShift THEN 0
                ELSE ByteXor(kread[1].Buffer[k], kmask[1][((k - xorShift - 1) % crcSize) + 1])

\* C14 as stated: Extract on a container for which Verify returned false hands
\* out no key material: it returns an error.
C14_UnverifiedExtractFails ==
    \A i \in VerifyEntries, j \in ExtractEntries :
        ~klog[i].ok => (klog[j].err # Nil /\ klog[j].power = NilPtr /\ klog[j].modulus = NilPtr)

\* C15: for a container that passes Verify, whatever the order of the Verify
\* and Extract calls, every Verify returns true and every Extract returns the
\* same (power, modulus) pair.
C15_SameResults ==
    (\E i \in VerifyEntries : klog[i].ok) =>
        /\ \A i \in VerifyEntries : klog[i].ok
        /\ \A i, j \in ExtractEntries : klog[i] = klog[j]
        /\ \A i \in ExtractEntries : ~container[1].external.readErr => klog[i].err = Nil

\* C15: neither Verify nor Extract changes the container's reserved field, sign
\* flag, stored checksum, length field or inner buffer.
C15_ContainerUnchanged ==
    kpc = "ready" => (kpc' = "ready" /\ container'[1].key = container[1].key)

\* C15: extraction is deterministic and read-only.
C15_DeterministicReadOnly == [](C15_SameResults) /\ [][C15_ContainerUnchanged]_vars

\* Extract, a true Verify, and Extract again with the same pair
C15_Witness ==
    /\ Len(klog) = 3
    /\ klog[1].op = "Extract" /\ klog[1].err = Nil /\ klog[1].power = Ptr(65537)
    /\ klog[2].op = "Verify" /\ klog[2].ok
    /\ klog[3] = klog[1]

\* the sum of s[lo + i] * 256^i over i in 0..n-1, by halves; a half that is
\* zero is not multiplied
RECURSIVE LittleEndianValue(_, _, _)
LittleEndianValue(s, lo, n) ==
    IF n = 0 THEN 0
    ELSE IF n = 1 THEN s[lo]
    ELSE LET h == n \div 2
             low == LittleEndianValue(s, lo, h)
             high == LittleEndianValue(s, lo + h, n - h)
         IN IF high = 0 THEN low ELSE low + (256 ^ h) * high

\* C16: Extract returns power as the sum over i in 0..65 of buf[6+i]*256^i and
\* modulus as the sum over i in 0..65 of buf[74+i]*256^i, buf the decrypted
\* inner buffer; for the file written for the pair (11, 4000037) these are 11
\* and 4000037.
C16_LittleEndianFields ==
    \A i \in ExtractEntries :
        klog[i].err = Nil =>
            /\ klog[i].power = Ptr(LittleEndianValue(container[1].key.Buffer, 6 + 1, keyFieldSize))
            /\ klog[i].modulus = Ptr(LittleEndianValue(container[1].key.Buffer, 74 + 1, keyFieldSize))
            /\ (WrittenForArgs /\ kargs[1].key = GoodFile) =>
                  (klog[i].power = Ptr(11) /\ klog[i].modulus = Ptr(4000037))

\* a power of three bytes and a modulus of three bytes were extracted
C16_Witness ==
    \E i \in ExtractEntries :
        /\ klog[i].err = Nil
        /\ klog[i].power = Ptr(65537)
        /\ klog[i].modulus = Ptr(4000037)
        /\ container[1].key.Buffer[6 + 1] = 1
        /\ container[1].key.Buffer[6 + 3] = 1

-----------------------------------------------------------------------------
(* md4Hash on its own *)

MaxHashLen == 70

\* the streams the inputs are prefixes of: the alphabet repeated, a stream
\* running through the byte values, and 255 repeated
HashStreams ==
    {[k \in 1..MaxHashLen |-> 97 + ((k - 1) % 26)],
     [k \in 1..MaxHashLen |-> (37 * k + 11) % 256],
     [k \in 1..MaxHashLen |-> 255]}

\* what md4Hash returns for data, beside the digest of the same bytes
HashBoth(d) == [keyed |-> md4Hash(d), digest |-> md4Digest(d)]

HashInit ==
    /\ NotConstructed
    /\ IdleCallers
    /\ IdleContainer
    /\ IdleReverse
    /\ IdleSend
    /\ hpc = "next"
    /\ hstream \in HashStreams
    /\ hlen = 0
    /\ hkeyed = NilPtr
    /\ hdigest = NilPtr
    /\ hdiffer = {}

\* md4Hash(data) for the next prefix of the stream
HashCall ==
    /\ hpc = "next"
    /\ hlen <= MaxHashLen
    /\ \E r \in {HashBoth(SubSeq(hstream, 1, hlen))} :
          /\ hkeyed' = Ptr(r.keyed)
          /\ hdigest' = Ptr(r.digest)
          /\ hdiffer' = IF r.keyed = r.digest THEN hdiffer ELSE hdiffer \cup {hlen}
    /\ hlen' = hlen + 1
    /\ UNCHANGED <<hpc, hstream>>
    /\ UNCHANGED <<cvars, svars, kvars, rvars, qvars>>

\* every prefix has been hashed
HashDone ==
    /\ hpc = "next"
    /\ hlen > MaxHashLen
    /\ hpc' = "done"
    /\ UNCHANGED <<hstream, hlen, hkeyed, hdigest, hdiffer>>
    /\ UNCHANGED <<cvars, svars, kvars, rvars, qvars>>

HashNext ==
    \/ HashCall
    \/ HashDone

SpecHash == HashInit /\ [][HashNext]_vars

-----------------------------------------------------------------------------
(* Properties of md4Hash *)

\* RFC 1320's digests of "", "a", "abc" and "abcdefghijklmnopqrstuvwxyz", by length
Rfc1320 ==
    [n \in {0, 1, 3, 26} |->
        CASE n = 0 -> <<49, 214, 207, 224, 209, 106, 233, 49, 183, 60, 89, 215, 224, 192, 137, 192>>
          [] n = 1 -> <<189, 229, 44, 179, 29, 227, 62, 70, 36, 94, 5, 251, 219, 214, 251, 36>>
          [] n = 3 -> <<164, 72, 1, 122, 175, 33, 216, 82, 95, 193, 10, 232, 122, 166, 114, 157>>
          [] n = 26 -> <<215, 158, 28, 48, 138, 165, 187, 205, 238, 168, 237, 99, 223, 65, 45, 169>>]

\* the input of the last call
HashedInput == SubSeq(hstream, 1, hlen - 1)

\* C17 as stated: among the inputs hashed there is one for which md4Hash
\* differs from the conventional 16-byte digest.
C17_SomeInputDiffers ==
    hpc = "done" => hdiffer # {}

\* C17: md4Hash(data) is the conventional 16-byte MD4 digest of data for every
\* input: hash.Sum(data) appends the digest to data, and [length:] is the digest.
\* The conventional digest is the one RFC 1320 lists for its test strings.
C17_KeyedHashIsDigest ==
    /\ hdiffer = {}
    /\ hkeyed = hdigest
    /\ hlen > 0 =>
          /\ Len(hkeyed[1]) = crcSize
          /\ (hstream[1] = 97 /\ (hlen - 1) \in DOMAIN Rfc1320) => hkeyed[1] = Rfc1320[hlen - 1]

\* every length up to two blocks has been hashed, the last input longer than a block
C17_Witness ==
    /\ hpc = "done"
    /\ Len(HashedInput) > 64
    /\ hkeyed # NilPtr
    /\ hkeyed = hdigest

-----------------------------------------------------------------------------
(* reverseBytes and reverseWords on their own *)

MaxLen == 4
MaxWords == 3

ByteSamples == {0, 1, 255}
WordSamples == {<<0, 1>>, <<255, 0>>}
SeqsUpTo(S, n) == UNION {[1..k -> S] : k \in 0..n}
Buffers == SeqsUpTo(ByteSamples, MaxLen)
WordSeqs == SeqsUpTo(WordSamples, MaxWords)

ReverseInit ==
    /\ NotConstructed
    /\ IdleCallers
    /\ IdleContainer
    /\ IdleHash
    /\ IdleReverse
    /\ IdleSend

\* reverseBytes(data) entered: length := len(data); reversed := make([]byte, length); i := length
ReverseBytesCall(d) ==
    /\ rpc = "input"
    /\ rin' = d
    /\ rdata' = d
    /\ reversed' = Zeros(Len(d))
    /\ ri' = Len(d)
    /\ rpc' = "loop"
    /\ UNCHANGED <<rtwice, win, wonce, wtwice, rerr>>
    /\ UNCHANGED <<cvars, svars, kvars, hvars, qvars>>

\* one iteration of the loop
ReverseBytesStep ==
    /\ rpc = "loop"
    /\ ri > 0
    /\ rdata' = reverseLoop([data |-> rdata, reversed |-> reversed, i |-> ri]).data
    /\ reversed' = reverseLoop([data |-> rdata, reversed |-> reversed, i |-> ri]).reversed
    /\ ri' = reverseLoop([data |-> rdata, reversed |-> reversed, i |-> ri]).i
    /\ UNCHANGED <<rpc, rin, rtwice, win, wonce, wtwice, rerr>>
    /\ UNCHANGED <<cvars, svars, kvars, hvars, qvars>>

\* return reversed
ReverseBytesReturn ==
    /\ rpc = "loop"
    /\ ri = 0
    /\ rpc' = "returned"
    /\ UNCHANGED <<rin, rdata, reversed, ri, rtwice, win, wonce, wtwice, rerr>>
    /\ UNCHANGED <<cvars, svars, kvars, hvars, qvars>>

\* reverseBytes(reverseBytes(b)) on the caller's buffer
ReverseBytesTwice ==
    /\ rpc = "returned"
    /\ rtwice' = Ptr(reverseBytes(reverseBytes(rdata)))
    /\ rpc' = "twice"
    /\ UNCHANGED <<rin, rdata, reversed, ri, win, wonce, wtwice, rerr>>
    /\ UNCHANGED <<cvars, svars, kvars, hvars, qvars>>

\* reverseWords(ws) and reverseWords(reverseWords(ws))
ReverseWordsCall(ws) ==
    /\ rpc = "input"
    /\ win' = ws
    /\ wonce' = Ptr(reverseWords(ws))
    /\ wtwice' = Ptr(reverseWords(reverseWords(ws)))
    /\ rpc' = "words"
    /\ UNCHANGED <<rin, rdata, reversed, ri, rtwice, rerr>>
    /\ UNCHANGED <<cvars, svars, kvars, hvars, qvars>>

\* m.reverseBytesAsWords(data) under the codec ext
ReverseBytesAsWordsCall(ext, d) ==
    /\ rpc = "input"
    /\ rin' = d
    /\ rdata' = padData(d).caller
    /\ \E r \in {reverseBytesAsWords(ext, d)} :
          /\ reversed' = r.bytes
          /\ rerr' = r.err
    /\ rpc' = "aswords"
    /\ UNCHANGED <<ri, rtwice, win, wonce, wtwice>>
    /\ UNCHANGED <<cvars, svars, kvars, hvars, qvars>>

ReverseNext ==
    \/ \E d \in Buffers : ReverseBytesCall(d)
    \/ ReverseBytesStep
    \/ ReverseBytesReturn
    \/ ReverseBytesTwice
    \/ \E ws \in WordSeqs : ReverseWordsCall(ws)
    \/ \E ext \in {newReader, ReadErrorExternal}, d \in Buffers : ReverseBytesAsWordsCall(ext, d)

SpecReverse == ReverseInit /\ [][ReverseNext]_vars

-----------------------------------------------------------------------------
(* Properties of reverseBytes and reverseWords *)

\* C18: reverseBytes is an involution: reverseBytes(reverseBytes(b)) equals b
\* for every byte buffer b, the empty buffer included.
C18_ReverseBytesInvolution ==
    rpc = "twice" => rtwice = Ptr(rin)

\* a buffer of three bytes or more that is no palindrome went through both calls
C18_Witness ==
    /\ rpc = "twice"
    /\ Len(rin) >= 3
    /\ rin[1] # rin[Len(rin)]
    /\ rtwice = Ptr(rin)

\* the empty buffer went through both calls
C18_EmptyCase == rpc = "twice" /\ rin = <<>> /\ rtwice = Ptr(<<>>)

\* C19: for a buffer b of length n >= 0, reverseBytes(b) returns a new buffer
\* of length n with out[i] = b[n-1-i] for every i, and b itself is unchanged
\* (during the loop and after it).
C19_ReverseBytesResult ==
    /\ rpc \in {"loop", "returned", "twice"} => rdata = rin
    /\ rpc \in {"returned", "twice"} =>
          /\ Len(reversed) = Len(rin)
          /\ \A i \in 0..(Len(rin) - 1) : reversed[i + 1] = rin[(Len(rin) - 1 - i) + 1]
          /\ reversed = reverseBytes(rin)

\* a buffer whose first and last byte differ was reversed
C19_Witness ==
    /\ rpc = "returned"
    /\ Len(rin) >= 2
    /\ rin[1] # rin[Len(rin)]
    /\ reversed[1] = rin[Len(rin)]

\* C20: reverseWords is an involution, reverseWords(reverseWords(ws)) equals ws
\* for every sequence ws of 2-byte words, and each word keeps the order of its
\* two bytes (word i of the result is word n+1-i of ws, byte for byte).
C20_ReverseWordsInvolution ==
    rpc = "words" =>
        /\ wtwice = Ptr(win)
        /\ Len(wonce[1]) = Len(win)
        /\ \A i \in 1..Len(win) :
              /\ wonce[1][i][1] = win[Len(win) + 1 - i][1]
              /\ wonce[1][i][2] = win[Len(win) + 1 - i][2]

\* two different words or more were reversed
C20_Witness ==
    /\ rpc = "words"
    /\ Len(win) >= 2
    /\ win[1] # win[Len(win)]
    /\ wonce[1][1] = win[Len(win)]
    /\ wtwice = Ptr(win)

\* the input of reverseBytesAsWords with a zero byte in front when its length is odd
PaddedInput == IF Len(rin) % 2 = 1 THEN <<0>> \o rin ELSE rin

\* C21: reverseBytesAsWords returns n+1 bytes for an input of odd length n and
\* n bytes for an even one; with p the input left-padded to an even length L,
\* out[2k] = p[L-2-2k] and out[2k+1] = p[L-1-2k] for every k; the caller's
\* buffer is as it was.
C21_WordReversalOfPadded ==
    (rpc = "aswords" /\ rerr = Nil) =>
        /\ Len(reversed) = Len(rin) + (Len(rin) % 2)
        /\ Len(reversed) = Len(PaddedInput)
        /\ \A k \in 0..((Len(PaddedInput) \div 2) - 1) :
              /\ reversed[2 * k + 1] = PaddedInput[(Len(PaddedInput) - 2 - 2 * k) + 1]
              /\ reversed[(2 * k + 1) + 1] = PaddedInput[(Len(PaddedInput) - 1 - 2 * k) + 1]
        /\ rdata = rin

\* an input of three bytes came back as four, the padded first word last
C21_Witness ==
    /\ rpc = "aswords"
    /\ rerr = Nil
    /\ Len(rin) = 3
    /\ rin[2] # rin[3]
    /\ rin[1] # 0
    /\ Len(reversed) = 4
    /\ reversed = <<rin[2], rin[3], 0, rin[1]>>

-----------------------------------------------------------------------------
(* The XML interface: TransferMoney, GetTransactionsHistory, GetBalance *)

operationTransferMoney == "Trans"
operationGetTransactionsHistory == "Operations"
operationGetBalance == "Purses"
Operations == {operationTransferMoney, operationGetTransactionsHistory, operationGetBalance}

ErrSign == "TestWebMoney_GetBalance_SendRequest_Signer_Sign_Error"
ErrMarshal == "TestWebMoney_GetBalance_SendRequest_XmlMarshal_Error"
ErrTransport == "TransportStatusError"
ErrIoReader == "SomeError"
ErrXmlSyntax == "XML syntax error"
ErrXmlInt == "strconv.ParseInt: invalid syntax"
ErrXmlElement == "expected element type"
ErrUnmarshalFn == "unMarshalFn error"

\* the XMLName of the receiver each method passes: new(TransferMoneyResponse),
\* new(GetTransactionsHistoryResponse), new(GetBalanceResponse)
ReceiverElement(op) ==
    CASE op = operationTransferMoney -> "operation"
      [] op = operationGetTransactionsHistory -> "operations"
      [] op = operationGetBalance -> "purses"

\* a response body: whether it is a complete w3s.response document, the text of
\* its retval and retdesc elements ("" when the element is absent) and the name of
\* the one further child element ("" when there is none)
Doc(wf, retval, retdesc, child) ==
    [wellFormed |-> wf, retval |-> retval, retdesc |-> retdesc, child |-> child]
NoDoc == Doc(FALSE, "", "", "")

\* the bodies a service may answer with
ServiceDocs ==
    {Doc(wf, rv, rd, ch) : wf \in BOOLEAN, rv \in {"", "0", "4", "-999", "x"},
                           rd \in {"", "Mock error"}, ch \in {"", "purses"}}

\* the signers a WebMoney may hold, by what their Sign returns
WebSigners ==
    {[sig |-> "5f3a", err |-> Nil], [sig |-> "", err |-> Nil], [sig |-> "", err |-> ErrSign]}

\* the transports behind m.httpClient
Transports ==
    {[kind |-> k, doc |-> NoDoc] : k \in {"TransportStatusOk", "TransportStatusWmError",
                                          "TransportStatusError", "TransportStatusErrorIoReader"}}
    \cup {[kind |-> "service", doc |-> d] : d \in ServiceDocs}

\* the WebMoney structs the methods are called on
WebMoneys ==
    {[signer |-> s, marshalFn |-> mf, unMarshalFn |-> uf, httpClient |-> t] :
        s \in WebSigners, mf \in {"xml", "error"}, uf \in {"xml", "error"}, t \in Transports}

\* a Sign error that is not looked at
SignErrIgnored(s) == Nil

\* m.signer.Sign(payload.SignatureString): the error it returns
SignErr(s) == s.err

\* m.marshalFn(payload): [b, err]
Marshal(fn, p) ==
    IF fn = "error" THEN [b |-> NilPtr, err |-> ErrMarshal]
    ELSE [b |-> Ptr([root |-> "w3s.request", sign |-> p.Signature, request |-> p.op]), err |-> Nil]

Response(status, readErr, doc) ==
    [StatusCode |-> status, Body |-> [readErr |-> readErr, doc |-> doc]]

\* RoundTrip of the transport behind the client, on a request for path: [rsp, err]
RoundTrip(t, path) ==
    CASE t.kind = "TransportStatusOk" ->
            IF path \in Operations
            THEN [rsp |-> Ptr(Response(200, FALSE, Doc(TRUE, "0", "Ok", ReceiverElement(path)))),
                  err |-> Nil]
            ELSE [rsp |-> Ptr(Response(404, FALSE, NoDoc)), err |-> Nil]
      [] t.kind = "TransportStatusWmError" ->
            [rsp |-> Ptr(Response(200, FALSE, Doc(TRUE, "-999", "Mock error", ""))), err |-> Nil]
      [] t.kind = "TransportStatusError" -> [rsp |-> NilPtr, err |-> ErrTransport]
      [] t.kind = "TransportStatusErrorIoReader" ->
            [rsp |-> Ptr(Response(400, TRUE, NoDoc)), err |-> Nil]
      [] t.kind = "service" -> [rsp |-> Ptr(Response(200, FALSE, t.doc)), err |-> Nil]

\* strconv on the text of retval, for the field Code int
IsInt(text) == text \in {"0", "4", "-999"}
Atoi(text) == CASE text = "0" -> 0 [] text = "4" -> 4 [] text = "-999" -> 0 - 999

\* m.unMarshalFn(rspBody, out), out = &BaseResponse{Response: receiver}: [out, err]
Unmarshal(fn, doc, op) ==
    IF fn = "error" THEN [out |-> NilPtr, err |-> ErrUnmarshalFn]
    ELSE IF ~doc.wellFormed THEN [out |-> NilPtr, err |-> ErrXmlSyntax]
    ELSE IF doc.retval # "" /\ ~IsInt(doc.retval) THEN [out |-> NilPtr, err |-> ErrXmlInt]
    ELSE IF doc.child # "" /\ doc.child # ReceiverElement(op)
         THEN [out |-> NilPtr, err |-> ErrXmlElement]
    ELSE [out |-> Ptr([Code |-> IF doc.retval = "" THEN 0 ELSE Atoi(doc.retval),
                       Reason |-> doc.retdesc,
                       Response |-> [element |-> ReceiverElement(op), filled |-> doc.child # ""]]),
          err |-> Nil]

\* only a negative code taken for a failure
CheckCodeNegative(out) ==
    IF out.Code < 0 THEN [result |-> NilPtr, err |-> out.Reason]
    ELSE [result |-> Ptr(out.Response), err |-> Nil]

\* if out.Code != 0 { return nil, errors.New(out.Reason) }; return out, nil, and the
\* method's return result.Response.(*T), nil
CheckCode(out) ==
    IF out.Code # 0 THEN [result |-> NilPtr, err |-> out.Reason]
    ELSE [result |-> Ptr(out.Response), err |-> Nil]

SendInit ==
    /\ NotConstructed
    /\ IdleCallers
    /\ IdleContainer
    /\ IdleHash
    /\ IdleReverse
    /\ IdleSend

\* the method up to its call of m.sendRequest(url, req, receiver)
MethodCall(op, w) ==
    /\ qpc \in {"idle", "returned"}
    /\ webmoney' = Ptr(w)
    /\ payload' = Ptr([op |-> op, Signature |-> ""])
    /\ qbody' = NilPtr
    /\ qsent' = <<>>
    /\ qrsp' = NilPtr
    /\ qout' = NilPtr
    /\ qret' = [result |-> NilPtr, err |-> Nil]
    /\ qlog' = <<>>
    /\ qpc' = "sign"
    /\ UNCHANGED <<cvars, svars, kvars, hvars, rvars>>

TransferMoney(w) == MethodCall(operationTransferMoney, w)
GetTransactionsHistory(w) == MethodCall(operationGetTransactionsHistory, w)
GetBalance(w) == MethodCall(operationGetBalance, w)

\* return nil, err from sendRequest and from the method
SendFail(e) ==
    /\ qret' = [result |-> NilPtr, err |-> e]
    /\ qpc' = "returned"

\* payload.Signature, err = m.signer.Sign(payload.SignatureString)
SendSign ==
    /\ qpc = "sign"
    /\ qlog' = Append(qlog, "Sign")
    /\ payload' = Ptr([payload[1] EXCEPT !.Signature = webmoney[1].signer.sig])
    /\ \E e \in {SignErr(webmoney[1].signer)} :
          IF e # Nil THEN SendFail(e) ELSE qpc' = "marshal" /\ UNCHANGED qret
    /\ UNCHANGED <<webmoney, qbody, qsent, qrsp, qout>>
    /\ UNCHANGED <<cvars, svars, kvars, hvars, rvars>>

\* b, err := m.marshalFn(payload)
SendMarshal ==
    /\ qpc = "marshal"
    /\ qlog' = Append(qlog, "Marshal")
    /\ \E r \in {Marshal(webmoney[1].marshalFn, payload[1])} :
          /\ qbody' = r.b
          /\ IF r.err # Nil THEN SendFail(r.err) ELSE qpc' = "do" /\ UNCHANGED qret
    /\ UNCHANGED <<webmoney, payload, qsent, qrsp, qout>>
    /\ UNCHANGED <<cvars, svars, kvars, hvars, rvars>>

\* http.NewRequest(POST, url, b), the Content-Type header and m.httpClient.Do(req)
SendDo ==
    /\ qpc = "do"
    /\ qlog' = Append(qlog, "Do")
    /\ qsent' = Append(qsent, [Method |-> "POST", Path |-> payload[1].op,
                               ContentType |-> "text/xml", Body |-> qbody[1]])
    /\ \E r \in {RoundTrip(webmoney[1].httpClient, payload[1].op)} :
          /\ qrsp' = r.rsp
          /\ IF r.err # Nil THEN SendFail(r.err) ELSE qpc' = "read" /\ UNCHANGED qret
    /\ UNCHANGED <<webmoney, payload, qbody, qout>>
    /\ UNCHANGED <<cvars, svars, kvars, hvars, rvars>>

\* rspBody, err := ioutil.ReadAll(rsp.Body) and rsp.Body.Close()
SendReadAll ==
    /\ qpc = "read"
    /\ qlog' = Append(qlog, "ReadAll")
    /\ IF qrsp[1].Body.readErr THEN SendFail(ErrIoReader) ELSE qpc' = "unmarshal" /\ UNCHANGED qret
    /\ UNCHANGED <<webmoney, payload, qbody, qsent, qrsp, qout>>
    /\ UNCHANGED <<cvars, svars, kvars, hvars, rvars>>

\* err = m.unMarshalFn(rspBody, out)
SendUnmarshal ==
    /\ qpc = "unmarshal"
    /\ qlog' = Append(qlog, "Unmarshal")
    /\ \E r \in {Unmarshal(webmoney[1].unMarshalFn, qrsp[1].Body.doc, payload[1].op)} :
          /\ qout' = r.out
          /\ IF r.err # Nil THEN SendFail(r.err) ELSE qpc' = "code" /\ UNCHANGED qret
    /\ UNCHANGED <<webmoney, payload, qbody, qsent, qrsp>>
    /\ UNCHANGED <<cvars, svars, kvars, hvars, rvars>>

\* if out.Code != 0 and the two returns
SendReturn ==
    /\ qpc = "code"
    /\ qlog' = Append(qlog, "Code")
    /\ qret' = CheckCode(qout[1])
    /\ qpc' = "returned"
    /\ UNCHANGED <<webmoney, payload, qbody, qsent, qrsp, qout>>
    /\ UNCHANGED <<cvars, svars, kvars, hvars, rvars>>

SendNext ==
    \/ \E w \in WebMoneys : TransferMoney(w)
    \/ \E w \in WebMoneys : GetTransactionsHistory(w)
    \/ \E w \in WebMoneys : GetBalance(w)
    \/ SendSign
    \/ SendMarshal
    \/ SendDo
    \/ SendReadAll
    \/ SendUnmarshal
    \/ SendReturn

SpecSend == SendInit /\ [][SendNext]_vars

\* the steps made so far are the first steps of sendRequest, in its order
InOrder == \E n \in 0..6 : qlog = SubSeq(<<"Sign", "Marshal", "Do", "ReadAll", "Unmarshal", "Code">>, 1, n)

\* once Sign has returned an error: that error and a nil result are what the
\* method returns, and nothing was marshaled or handed to the client
SignErrorStops ==
    (qlog # <<>> /\ webmoney[1].signer.err # Nil) =>
        /\ qpc = "returned"
        /\ qret = [result |-> NilPtr, err |-> webmoney[1].signer.err]
        /\ qlog = <<"Sign">>
        /\ qbody = NilPtr
        /\ qsent = <<>>

\* once marshalFn has returned an error: that error and a nil result are what the
\* method returns, and no request was handed to the client
MarshalErrorStops ==
    (Len(qlog) >= 2 /\ webmoney[1].marshalFn = "error") =>
        /\ qpc = "returned"
        /\ qret = [result |-> NilPtr, err |-> ErrMarshal]
        /\ qlog = <<"Sign", "Marshal">>
        /\ qsent = <<>>

\* a request is handed to the client only after Sign and marshalFn both succeeded,
\* and it carries the marshaled payload with the signature Sign returned
SentAfterSigned ==
    Len(qsent') > Len(qsent) =>
        /\ qlog = <<"Sign", "Marshal">>
        /\ webmoney[1].signer.err = Nil
        /\ qbody # NilPtr
        /\ qsent' = <<[Method |-> "POST", Path |-> payload[1].op, ContentType |-> "text/xml",
                       Body |-> [root |-> "w3s.request", sign |-> webmoney[1].signer.sig,
                                 request |-> payload[1].op]]>>

\* C22: sendRequest obtains the signature before anything is sent: a Sign error is
\* returned with a nil result and nothing is marshaled or handed to the HTTP client;
\* a marshal error is returned with a nil result and no request is handed to the
\* HTTP client; a request reaches the client only after both succeeded.
C22_SignBeforeSend ==
    [](InOrder /\ SignErrorStops /\ MarshalErrorStops) /\ [][SentAfterSigned]_vars

\* GetBalance returned the signer's error after the single step Sign
C22_Witness ==
    /\ qpc = "returned"
    /\ payload # NilPtr
    /\ payload[1].op = operationGetBalance
    /\ qlog = <<"Sign">>
    /\ qret.err = ErrSign
    /\ qsent = <<>>

\* GetBalance returned the marshal error and sent nothing
C22_MarshalCase ==
    /\ qpc = "returned"
    /\ qlog = <<"Sign", "Marshal">>
    /\ qret.err = ErrMarshal
    /\ qsent = <<>>

\* a request was handed to the client
C22_SentCase == Len(qsent) = 1 /\ qsent[1].Body.sign = "5f3a"

\* C23: when the response decodes with a non-zero retval, the method returns a nil
\* result and an error whose message is the response's retdesc; the method returns
\* a non-nil result only when Sign, marshalFn, Do, ReadAll and unMarshalFn all
\* succeeded and retval is 0.
C23_CodeDecides ==
    qpc = "returned" =>
        /\ (qout # NilPtr /\ qout[1].Code # 0) =>
              /\ qret.result = NilPtr
              /\ qret.err = qrsp[1].Body.doc.retdesc
              /\ qout[1].Code = Atoi(qrsp[1].Body.doc.retval)
        /\ qret.result # NilPtr =>
              /\ qret.err = Nil
              /\ qlog = <<"Sign", "Marshal", "Do", "ReadAll", "Unmarshal", "Code">>
              /\ webmoney[1].signer.err = Nil
              /\ webmoney[1].marshalFn = "xml"
              /\ webmoney[1].unMarshalFn = "xml"
              /\ qrsp # NilPtr
              /\ ~qrsp[1].Body.readErr
              /\ qrsp[1].Body.doc.wellFormed
              /\ qout # NilPtr
              /\ qout[1].Code = 0
        /\ (qret.result = NilPtr) # (qret.err = Nil)

\* TransferMoney against TransportStatusWmError returned (nil, "Mock error")
C23_Witness ==
    /\ qpc = "returned"
    /\ payload[1].op = operationTransferMoney
    /\ webmoney[1].httpClient.kind = "TransportStatusWmError"
    /\ qout # NilPtr
    /\ qout[1].Code = 0 - 999
    /\ qret = [result |-> NilPtr, err |-> "Mock error"]

\* a positive code with an empty retdesc: a nil result and an error with an empty message
C23_PositiveCase ==
    /\ qpc = "returned"
    /\ qout # NilPtr
    /\ qout[1].Code = 4
    /\ qret = [result |-> NilPtr, err |-> ""]

\* a result was returned
C23_ResultCase == qpc = "returned" /\ qret.result # NilPtr /\ qret.result[1].filled

-----------------------------------------------------------------------------
(* Encrypt called again on a built container *)

MaxEncrypts == 2

EncryptArgs ==
    {[wmid |-> TestWmId, keyPassword |-> pw] : pw \in {TestPassword, WrongPassword}}

\* keyContainer.Encrypt(wmid, keyPassword) on the container newKeyContainer returned
EncryptCall(a) ==
    /\ kpc = "ready"
    /\ Len(kenc) < MaxEncrypts
    /\ \E kc \in {Encrypt(container[1], a.wmid, a.keyPassword)} :
          /\ container' = Ptr(kc)
          /\ kenc' = Append(kenc, [wmid |-> a.wmid, keyPassword |-> a.keyPassword,
                                   before |-> container[1].key.Buffer,
                                   after |-> kc.key.Buffer])
    /\ kcalls' = Append(kcalls, "Encrypt")
    /\ UNCHANGED <<kpc, kargs, kread, kmask, kerr, khashed, klog>>
    /\ UNCHANGED <<cvars, svars, hvars, rvars, qvars>>

EncryptNext ==
    \/ \E a \in NewKeyContainerArgs, ext \in ContainerExternals : NewKeyContainerCall(a, ext)
    \/ \E a \in EncryptArgs : EncryptCall(a)

SpecEncrypt == KeyInit /\ [][EncryptNext]_vars

\* the k-th bit of a byte
Bit(x, k) == (x \div (2 ^ k)) % 2

\* z is the bitwise exclusive or of the bytes x and y
IsXorOf(z, x, y) ==
    /\ z \in 0..255
    /\ {k \in 0..7 : Bit(z, k) # (Bit(x, k) + Bit(y, k)) % 2} = {}

\* after is before with every byte i, 6 <= i < 140, combined with mask[(i - 6) mod 16]
Decrypted(after, before, mask) ==
    /\ Len(after) = bufferSize
    /\ {i \in 6..(bufferSize - 1) :
            ~IsXorOf(after[i + 1], before[i + 1], mask[((i - 6) % crcSize) + 1])} = {}

\* every Encrypt made so far, that of newKeyContainer first: [wmid, keyPassword, before, after]
Encryptions ==
    IF kpc # "ready" THEN <<>>
    ELSE <<[wmid |-> kargs[1].wmid, keyPassword |-> kargs[1].keyPassword,
            before |-> ReadKeyContainerKey(kargs[1].key).Buffer,
            after |-> IF kenc = <<>> THEN container[1].key.Buffer ELSE kenc[1].before]>> \o kenc

\* C26: the decryption step gives decrypted[i] = original[i] XOR mask[(i - 6) mod 16]
\* for every i with 6 <= i < 140, mask being the keyed hash of identifier ++
\* passphrase; this holds for the Encrypt of newKeyContainer and for every later one.
C26_MaskFromByteSix ==
    \A j \in DOMAIN Encryptions :
        Decrypted(Encryptions[j].after, Encryptions[j].before,
                  md4Hash(Encryptions[j].wmid \o Encryptions[j].keyPassword))

\* a container built from the file written for its identifier and password, whose
\* buffer differs from the file's in the byte 6 and the byte 139
C26_Witness ==
    /\ kpc = "ready"
    /\ kenc = <<>>
    /\ kargs[1].key = GoodFile
    /\ kargs[1].keyPassword = TestPassword
    /\ container[1].key.Buffer[7] # ReadKeyContainerKey(GoodFile).Buffer[7]
    /\ container[1].key.Buffer[bufferSize] # ReadKeyContainerKey(GoodFile).Buffer[bufferSize]

\* C30: Encrypt is its own inverse on the bytes 6..139: a second Encrypt with the
\* same identifier and passphrase gives those bytes the values they had before the
\* first, so the buffer a first Encrypt decrypted is not kept by a second one.
C30_SecondEncryptRestores ==
    \A j \in DOMAIN Encryptions :
        /\ SubSeq(Encryptions[j].after, xorShift + 1, bufferSize)
              # SubSeq(Encryptions[j].before, xorShift + 1, bufferSize)
        /\ (/\ j > 1
            /\ Encryptions[j].wmid = Encryptions[j - 1].wmid
            /\ Encryptions[j].keyPassword = Encryptions[j - 1].keyPassword) =>
              SubSeq(Encryptions[j].after, xorShift + 1, bufferSize)
                  = SubSeq(Encryptions[j - 1].before, xorShift + 1, bufferSize)

\* newKeyContainer with the file's identifier and password, then Encrypt with the
\* same two: the bytes 6..139 are the file's again and no longer the decrypted ones
C30_Witness ==
    /\ kpc = "ready"
    /\ Len(kenc) = 1
    /\ kargs[1].key = GoodFile
    /\ kargs[1].keyPassword = TestPassword
    /\ kenc[1].keyPassword = TestPassword
    /\ SubSeq(container[1].key.Buffer, xorShift + 1, bufferSize)
          = SubSeq(ReadKeyContainerKey(GoodFile).Buffer, xorShift + 1, bufferSize)
    /\ container[1].key.Buffer # kenc[1].before

\* a second Encrypt with another passphrase does not restore the bytes
C30_OtherPassphraseCase ==
    /\ kpc = "ready"
    /\ Len(kenc) = 1
    /\ kargs[1].keyPassword = TestPassword
    /\ kenc[1].keyPassword = WrongPassword
    /\ SubSeq(container[1].key.Buffer, xorShift + 1, bufferSize)
          # SubSeq(ReadKeyContainerKey(kargs[1].key).Buffer, xorShift + 1, bufferSize)

\* the struct as the header decode leaves it, and the mask of the arguments
DecodedKey == ReadKeyContainerKey(kargs[1].key)
ArgsMask == md4Hash(kargs[1].wmid \o kargs[1].keyPassword)

\* the decode failed: a nil container and the decode error, no Encrypt called
DecodeFailureStops ==
    (kargs # NilPtr /\ kpc = "failed") =>
        /\ container = NilPtr
        /\ kerr \in {BinaryReadErr(ext, kargs[1].key, keyLength) : ext \in ContainerExternals}
        /\ kerr # Nil
        /\ kcalls = <<"BinaryRead">>

\* the decode succeeded: Encrypt called once, after BinaryRead, and the container
\* holds the decoded struct with its buffer decrypted once
DecryptedOnce ==
    (kargs # NilPtr /\ kpc = "ready") =>
        /\ kerr = Nil
        /\ kcalls = <<"BinaryRead", "Encrypt">>
        /\ container[1].key = [DecodedKey EXCEPT !.Buffer = xor(DecodedKey.Buffer, ArgsMask, xorShift)]
        /\ container[1].key.Buffer # DecodedKey.Buffer
        /\ container[1].key.Buffer # xor(xor(DecodedKey.Buffer, ArgsMask, xorShift), ArgsMask, xorShift)

\* a Verify of such a container hashes the buffer decrypted once
VerifyAfterDecrypt ==
    (kargs # NilPtr /\ khashed # NilPtr) =>
        /\ kpc = "ready"
        /\ SubSeq(khashed[1], keyLength - bufferSize + 1, keyLength)
              = xor(DecodedKey.Buffer, ArgsMask, xorShift)

\* Verify is called only on a built container
VerifyAfterBuild == klog' # klog => (kpc = "ready" /\ container # NilPtr)

\* C24: newKeyContainer decodes the header, then decrypts, once: after a failed
\* decode it returns a nil container and the decode error and Encrypt is not
\* called; after a successful decode Encrypt is called exactly once; every Verify
\* that follows works on the buffer decrypted exactly once.
C24_DecodedThenDecrypted ==
    [](DecodeFailureStops /\ DecryptedOnce /\ VerifyAfterDecrypt) /\ [][VerifyAfterBuild]_vars

\* a container built from the file as written, verified: Verify returned true on
\* the buffer decrypted once
C24_Witness ==
    /\ kpc = "ready"
    /\ kargs # NilPtr
    /\ kargs[1].key = GoodFile
    /\ kcalls = <<"BinaryRead", "Encrypt">>
    /\ khashed # NilPtr
    /\ klog # <<>>
    /\ klog[1].op = "Verify"
    /\ klog[1].ok

\* the decode of a short file failed
C24_DecodeFailedCase ==
    /\ kpc = "failed"
    /\ kargs[1].key = ShortFile
    /\ kerr = ErrShortRead
    /\ kcalls = <<"BinaryRead">>
    /\ kmask = NilPtr

\* C25 as stated: every signature Sign returns with a nil error was built from 40
\* bytes the random source delivered: when RandRead reports fewer than 40 bytes,
\* with or without an error, Sign returns no signature.
C25_SignatureFromFortyBytes ==
    \A c \in Callers :
        (Returned(c) /\ drawn[c].n < randSize) => (serr[c] # Nil /\ sig[c] = <<>>)

\* what Sign does with a short read: the count is dropped, and with a nil error
\* the signature is built from the buffer as RandRead left it
C25_CountIgnored ==
    \A c \in Callers :
        (Returned(c) /\ drawn[c].err = Nil /\ signer[1].external = ShortReadExternal) =>
            /\ drawn[c].n = 0
            /\ serr[c] = Nil
            /\ sig[c] = ExpectedSignature(data[c], Zeros(randSize), signer[1].power[1],
                                          signer[1].modulus[1])

\* the call of c has passed its random read
PastRandRead(c) == spc[c] \in {"drawn", "exp"} \/ (Returned(c) /\ MadeCall(c, "Exp"))

\* C27: in every Sign call that passes the random read, the buffer handed to
\* reverseBytes has 58 bytes: byte 0 is 56, byte 1 is 0, bytes 2..17 are
\* md4Hash(message) and bytes 18..57 are the 40 bytes of the random buffer; the
\* number exponentiated is read from exactly this buffer.
C27_PaddedMessageLayout ==
    \A c \in Callers :
        PastRandRead(c) =>
            /\ Len(b[c]) = randSize
            /\ Len(SignBase(hash[c], b[c])) = 58
            /\ SignBase(hash[c], b[c])[1] = 56
            /\ SignBase(hash[c], b[c])[1] = Len(hash[c]) + Len(b[c])
            /\ SignBase(hash[c], b[c])[2] = 0
            /\ SubSeq(SignBase(hash[c], b[c]), 3, 18) = md4Hash(data[c])
            /\ SubSeq(SignBase(hash[c], b[c]), 19, 58) = b[c]
            /\ (MadeCall(c, "Exp") =>
                  result[c] = Ptr(Exp(reverseBytes(<<56, 0>> \o md4Hash(data[c]) \o b[c]),
                                      signer[1].power[1], signer[1].modulus[1])))

\* a call on "1234567890" that drew random bytes and has exponentiated
C27_Witness ==
    /\ spc["c1"] = "exp"
    /\ data["c1"] = TestMessage
    /\ b["c1"] \in RandPool
    /\ result["c1"] # NilPtr
    /\ SignBase(hash["c1"], b["c1"])[58] = b["c1"][randSize]

\* binary.Write of a keyData: every field of the struct, packed, in order
WriteKeyData(d) ==
    PutU32(d.Reserved) \o PutU16(d.PowerBase) \o d.Power \o PutU16(d.ModulusBase) \o d.Modulus

\* C28: the header widths 2 + 2 + 16 + 4 + 140 add up to keyLength = 164 and the
\* keyData widths 4 + 2 + 66 + 2 + 66 to the buffer's 140: decoding a 164-byte key
\* takes every byte into exactly one header field, one byte less does not decode,
\* and decoding the buffer into keyData takes every one of its 140 bytes.
C28_WidthsAddUp ==
    /\ 2 + 2 + crcSize + 4 + bufferSize = keyLength
    /\ keyLength = 164
    /\ 4 + 2 + keyFieldSize + 2 + keyFieldSize = bufferSize
    /\ bufferSize = 140
    /\ (kargs # NilPtr /\ Len(kargs[1].key) = keyLength) =>
          /\ Len(ReadKeyContainerKey(kargs[1].key).Crc) = crcSize
          /\ Len(ReadKeyContainerKey(kargs[1].key).Buffer) = bufferSize
          /\ WriteKeyContainerKey(ReadKeyContainerKey(kargs[1].key)) = kargs[1].key
          /\ BinaryReadErr(newReader, kargs[1].key, keyLength) = Nil
          /\ BinaryReadErr(newReader, SubSeq(kargs[1].key, 1, keyLength - 1), keyLength) # Nil
          /\ kread # NilPtr => kread[1] = ReadKeyContainerKey(kargs[1].key)
    /\ (kargs # NilPtr /\ Len(kargs[1].key) < keyLength) => kpc = "failed"
    /\ kpc = "ready" =>
          /\ Len(container[1].key.Buffer) = bufferSize
          /\ Len(ReadKeyData(container[1].key.Buffer).Power) = keyFieldSize
          /\ Len(ReadKeyData(container[1].key.Buffer).Modulus) = keyFieldSize
          /\ WriteKeyData(ReadKeyData(container[1].key.Buffer)) = container[1].key.Buffer
          /\ BinaryReadErr(newReader, container[1].key.Buffer, bufferSize) = Nil
          /\ BinaryReadErr(newReader, Tail(container[1].key.Buffer), bufferSize) # Nil

\* a 164-byte file decoded, its container verified and its keyData extracted, the
\* last byte of the file being the last byte of the modulus field
C28_Witness ==
    /\ kpc = "ready"
    /\ kargs # NilPtr
    /\ Len(kargs[1].key) = keyLength
    /\ kread[1].Buffer[bufferSize] = kargs[1].key[keyLength]
    /\ ReadKeyData(container[1].key.Buffer).Modulus[keyFieldSize] = container[1].key.Buffer[bufferSize]
    /\ \E j \in ExtractEntries : klog[j].ok

\* the values the 16-bit sign flag is varied over
SignFlags == {0, 1, 65535}

\* the container, and the key file, with another sign flag and nothing else changed
WithSignFlag(kc, f) == [kc EXCEPT !.key.SignFlag = f]
FileWithSignFlag(file, f) == SubSeq(file, 1, 2) \o PutU16(f) \o SubSeq(file, 5, Len(file))

\* C29: the sign flag has no influence: a key file that differs from the one read
\* only in its sign flag gives a container that differs only in that field, Verify
\* returns for it what it returned for the container at hand, and Extract returns
\* the same power, modulus and error.
C29_SignFlagIgnored ==
    (kpc = "ready" /\ kargs # NilPtr) =>
        \A f \in SignFlags :
            /\ newKeyContainer(FileWithSignFlag(kargs[1].key, f), kargs[1].wmid,
                               kargs[1].keyPassword, container[1].external).kc
                  = Ptr(WithSignFlag(container[1], f))
            /\ \A i \in VerifyEntries : klog[i].ok = Verify(WithSignFlag(container[1], f))
            /\ \A j \in ExtractEntries :
                  /\ klog[j].power = Extract(WithSignFlag(container[1], f)).power
                  /\ klog[j].modulus = Extract(WithSignFlag(container[1], f)).modulus
                  /\ klog[j].err = Extract(WithSignFlag(container[1], f)).err

\* the container read from the file with sign flag 1 was verified and its key
\* extracted; the same file with sign flag 0 is another file
C29_Witness ==
    /\ kpc = "ready"
    /\ kargs # NilPtr
    /\ kargs[1].key = GoodFile
    /\ container[1].key.SignFlag = 1
    /\ FileWithSignFlag(GoodFile, 0) # GoodFile
    /\ \E i \in VerifyEntries : klog[i].ok
    /\ \E j \in ExtractEntries : klog[j].ok /\ klog[j].modulus = Ptr(GoodKeyData.modulus)

\* a container whose Verify returned false, whatever the sign flag
C29_RejectedCase ==
    /\ kpc = "ready"
    /\ kargs # NilPtr
    /\ kargs[1].key = BrokenFile
    /\ \E i \in VerifyEntries : ~klog[i].ok

====
